---------------------------- MODULE Spec2Model ----------------------------
(***************************************************************************)
(* A model of the screening engine of ScreenerV13.py: the ITM contract     *)
(* selector (UpstoxAPI.find_itm_option, get_nearest_expiry), the           *)
(* per-symbol pipeline (fetch_single_stock_data with calculate_indicators  *)
(* and calculate_ichimoku, the cache table daily_prices), the MACD         *)
(* calculation (calculate_ema, calculate_macd), the token store            *)
(* (TokenManager), the thread-pool orchestrators (screen_stocks,           *)
(* background_refresh_data), the data calls of UpstoxAPI                   *)
(* (get_historical_data, get_current_data) and the option trade loops      *)
(* (execute_option_trade_strategy, execute_trades_with_progress).          *)
(*                                                                         *)
(* Python values are represented as follows.  An optional number is a      *)
(* sequence: <<>> is None and <<v>> is the number v.  An error text is a   *)
(* record with its parts.  A dict is a record.  Prices are integers.       *)
(***************************************************************************)
EXTENDS Integers, Sequences, FiniteSets, TLC

VARIABLES
    \* ---- ITM contract selector --------------------------------------
    itm_universe,   \* what the contract catalog holds for the symbol
    itm_args,       \* arguments of the last find_itm_option call
    itm_ret,        \* its return value (contract, error_message)
    exp_ret,        \* return value of the last get_nearest_expiry call
    \* ---- per-symbol pipeline -----------------------------------------
    f_in,           \* what one fetch_single_stock_data call gets and reads
    f_ret,          \* what the call returned
    f_calls,        \* the data functions the call invoked, in order
    daily_prices,   \* the rows of the table daily_prices for the symbol
    db_writable,    \* whether the database accepts a write
    \* ---- trend classifier --------------------------------------------
    cl_in,          \* the evidence: current price and the frames 0, 1 and 26
    cl_trend,       \* the verdict on it
    \* ---- screen_stocks ------------------------------------------------
    task,           \* per stock of stock_list: what its task will meet
    submitted,      \* how many stocks have been submitted to the executor
    future,         \* per stock: the state of its future
    yielded,        \* the futures as_completed has yielded so far
    results,        \* the local list `results`
    completed,      \* the local counter `completed`
    pc,             \* where screen_stocks is
    \* ---- calculate_macd ------------------------------------------------
    macd_in,        \* arguments of one calculate_macd call
    macd_ret,       \* what the call returned
    ema_in,         \* arguments of one calculate_ema call
    ema_ret,        \* what the call returned
    ema_again,      \* what a second call with the same arguments returned
    \* ---- TokenManager --------------------------------------------------
    api_tokens,     \* the rows of the table api_tokens
    now,            \* datetime.now(), in half seconds
    issued,         \* how many tokens the token endpoint has issued
    caller,         \* per thread: the TokenManager call it is in
    \* ---- UpstoxAPI data calls ------------------------------------------
    api_env,        \* the token get_token gives, the ISIN lookup, the broker's answer
    hist_ret,       \* what UpstoxAPI.get_historical_data returned
    cur_ret,        \* what UpstoxAPI.get_current_data returned
    \* ---- option trades -------------------------------------------------
    trade_fn,       \* which of the two trade functions runs
    trade_stocks,   \* stocks_to_trade: per stock its symbol and trend
    trade_i,        \* how many stocks the loop has handled
    trade_log,      \* the broker calls made so far, with what each returned
    trade_results,  \* the list of result entries
    \* ---- background_refresh_data --------------------------------------
    bg_submitted,   \* how many stocks have been submitted to its executor
    bg_future,      \* per stock: the state of its future
    bg_yielded,     \* the futures as_completed has yielded so far
    bg_results,     \* its local list `results`
    bg_pc           \* where background_refresh_data is

itmVars == <<itm_universe, itm_args, itm_ret, exp_ret>>
fetchVars == <<f_in, f_ret, f_calls, daily_prices, db_writable>>
classVars == <<cl_in, cl_trend>>
screenVars == <<task, submitted, future, yielded, results, completed, pc>>
macdVars == <<macd_in, macd_ret, ema_in, ema_ret, ema_again>>
tokenVars == <<api_tokens, now, issued, caller>>
apiVars == <<api_env, hist_ret, cur_ret>>
tradeVars == <<trade_fn, trade_stocks, trade_i, trade_log, trade_results>>
bgVars == <<bg_submitted, bg_future, bg_yielded, bg_results, bg_pc>>
vars == <<itmVars, fetchVars, classVars, screenVars, macdVars, tokenVars, bgVars, apiVars, tradeVars>>

(***************************************************************************)
(* Python helpers                                                          *)
(***************************************************************************)
None == <<>>
Some(v) == <<v>>
IsNone(x) == x = <<>>
Val(x) == x[1]
\* bool(x) of an optional number: None and 0 are falsy
Truthy(x) == x # <<>> /\ x[1] # 0

Range(s) == {s[i] : i \in DOMAIN s}

RECURSIVE SeqsUpTo(_, _)
\* all sequences over S of length at most n
SeqsUpTo(S, n) ==
    IF n = 0 THEN {<<>>}
    ELSE LET shorter == SeqsUpTo(S, n - 1)
         IN  shorter \cup {Append(q, x) : q \in {r \in shorter : Len(r) = n - 1}, x \in S}

Min(S) == CHOOSE x \in S : \A y \in S : x <= y
Max(S) == 0 - Min({0 - x : x \in S})

RECURSIVE SortPairsBy(_, _)
\* the pairs of s whose key is in `keys`, in ascending order of the keys, the
\* pairs of one key in the order they have in s
SortPairsBy(s, keys) ==
    IF keys = {} THEN <<>>
    ELSE LET lo == Min(keys)
             hi == Max(keys)
             mid == (lo + hi) \div 2
         IN  IF lo = hi THEN SelectSeq(s, LAMBDA p : p[2] = lo)
             ELSE SortPairsBy(s, {k \in keys : k <= mid})
                  \o SortPairsBy(s, {k \in keys : k > mid})

\* list.sort(key=...) on <<item, key>> pairs: ascending by key and stable
SortPairs(s) == SortPairsBy(s, {s[i][2] : i \in DOMAIN s})

\* s[::-1]
Reverse(s) == [i \in 1..Len(s) |-> s[Len(s) + 1 - i]]

(***************************************************************************)
(* Price series                                                            *)
(*                                                                         *)
(* A calendar day is an integer, 0 for today and -1 for yesterday.  The    *)
(* store and the broker give a candle's date as the string 'YYYY-MM-DD';   *)
(* date.today() is a date object.  Prices are multiples of 4, so that the  *)
(* halves and quarters that calculate_ichimoku takes are integers.         *)
(***************************************************************************)
StrDate(d) == [iso |-> d]
DateObj(d) == [day |-> d]
IsStr(x) == "iso" \in DOMAIN x
\* datetime.strptime(s, '%Y-%m-%d').date()
strptime(x) == [day |-> x.iso]
Today == DateObj(0)

Shapes == {"rise", "fall", "flat"}

CloseOn(shape, d) ==
    CASE shape = "rise" -> 4 * (300 + d)
      [] shape = "fall" -> 4 * (300 - d)
      [] shape = "flat" -> 4 * 300

OpenOn(shape, d) ==
    CASE shape = "rise" -> CloseOn(shape, d) - 4
      [] shape = "fall" -> CloseOn(shape, d) + 4
      [] shape = "flat" -> CloseOn(shape, d)

\* the daily candle of day d in a series of the given shape
DailyCandle(shape, d) ==
    [date |-> StrDate(d),
     open |-> OpenOn(shape, d),
     high |-> Max({OpenOn(shape, d), CloseOn(shape, d)}) + 4,
     low |-> Min({OpenOn(shape, d), CloseOn(shape, d)}) - 4,
     close |-> CloseOn(shape, d),
     volume |-> 1000]

\* a series of n daily candles, most recent first, whose latest day is top
Series(n, top, shape) == [i \in 1..n |-> DailyCandle(shape, top - (i - 1))]

NoSeries == [n |-> 0, top |-> 0, shape |-> "flat"]
SeriesOf(p) == Series(p.n, p.top, p.shape)

\* days=200 in every call of the three sources
HistoryDays == 200

\* get_historical_data: the rows of the store, newest first, at most `days`
get_historical_data(cache) == SeriesOf(cache)

\* UpstoxAPI.get_historical_data: the broker's candles, or None (here <<>>)
api_get_historical_data(remote) == SeriesOf(remote)

\* generate_mock_historical_data: `days` candles that end today
generate_mock_historical_data(shape) == Series(HistoryDays, 0, shape)

(***************************************************************************)
(* Indicators                                                              *)
(***************************************************************************)
TenkanPeriod == 9
KijunPeriod == 26
SenkouBPeriod == 52
MinCandles == 60

\* (max(highs) + min(lows)) / 2 over the w candles that end at index i of the
\* ascending series, None while fewer than w candles exist
WindowMid(data, i, w) ==
    IF i >= w
    THEN Some((Max({data[j].high : j \in (i - w + 1)..i})
               + Min({data[j].low : j \in (i - w + 1)..i})) \div 2)
    ELSE None

\* one entry of calculate_ichimoku
calculate_ichimoku(data, i) ==
    LET tenkan_sen == WindowMid(data, i, TenkanPeriod)
        kijun_sen == WindowMid(data, i, KijunPeriod)
    IN  [tenkan_sen |-> tenkan_sen,
         kijun_sen |-> kijun_sen,
         senkou_span_a |-> IF Truthy(tenkan_sen) /\ Truthy(kijun_sen)
                           THEN Some((Val(tenkan_sen) + Val(kijun_sen)) \div 2)
                           ELSE None,
         senkou_span_b |-> WindowMid(data, i, SenkouBPeriod),
         chikou_span |-> data[i].close]

\* ---- exact arithmetic for the averages --------------------------------
\* A number of calculate_ema is a fraction [n |-> numerator, d |-> denominator]
\* in lowest terms with d > 0.
RECURSIVE GCD(_, _)
GCD(a, b) == IF b = 0 THEN a ELSE GCD(b, a % b)

Abs(a) == IF a < 0 THEN 0 - a ELSE a

Q(n, d) ==
    LET g == GCD(Abs(n), Abs(d))
        sgn == IF d < 0 THEN 0 - 1 ELSE 1
    IN  [n |-> sgn * (n \div g), d |-> sgn * (d \div g)]

QInt(a) == [n |-> a, d |-> 1]
QAdd(x, y) == Q(x.n * y.d + y.n * x.d, x.d * y.d)
QSub(x, y) == Q(x.n * y.d - y.n * x.d, x.d * y.d)
QMul(x, y) == Q(x.n * y.n, x.d * y.d)

\* bool(x) of an optional number: None and 0.0 are falsy
TruthyQ(x) == x # None /\ Val(x).n # 0

RECURSIVE QSum(_, _)
QSum(prices, k) == IF k = 0 THEN QInt(0) ELSE QAdd(QSum(prices, k - 1), prices[k])

\* the first k entries of the list calculate_ema builds, for len(prices) >= period
RECURSIVE EmaUpTo(_, _, _)
EmaUpTo(prices, period, k) ==
    IF k < period THEN [i \in 1..k |-> None]
    ELSE IF k = period
    THEN Append([i \in 1..(period - 1) |-> None],
                Some(QMul(QSum(prices, period), Q(1, period))))
    ELSE LET ema == EmaUpTo(prices, period, k - 1)
             multiplier == Q(2, period + 1)
         IN  Append(ema, Some(QAdd(QMul(prices[k], multiplier),
                                   QMul(Val(ema[k - 1]),
                                        QSub(QInt(1), multiplier)))))

calculate_ema_NoPadding(prices, period) ==
    IF Len(prices) < period THEN [i \in 1..Len(prices) |-> None]
    ELSE SubSeq(EmaUpTo(prices, period, Len(prices)), period, Len(prices))

\* lines 2430-2437
calculate_ema(prices, period) ==
    IF Len(prices) < period THEN [i \in 1..Len(prices) |-> None]
    ELSE EmaUpTo(prices, period, Len(prices))

\* a variant whose differences test `is not None` instead of truthiness
Difference_IsNotNone(a, b) ==
    IF a # None /\ b # None THEN Some(QSub(Val(a), Val(b))) ELSE None

\* `a - b if a and b else None` (lines 2445 and 2451)
Difference(a, b) ==
    IF TruthyQ(a) /\ TruthyQ(b) THEN Some(QSub(Val(a), Val(b))) ELSE None

\* the three return values None, None, None
NoMacd == [macd |-> None, signal_line |-> None, histogram |-> None]

\* lines 2440-2452
calculate_macd(prices, fast, slow, signal) ==
    IF Len(prices) < slow + signal THEN NoMacd
    ELSE
    LET fast_ema == calculate_ema(prices, fast)
        slow_ema == calculate_ema(prices, slow)
        macd == [i \in 1..Len(prices) |-> Difference(fast_ema[i], slow_ema[i])]
        valid_opt == SelectSeq(macd, LAMBDA m : m # None)
        valid_macd == [i \in 1..Len(valid_opt) |-> Val(valid_opt[i])]
        nones == [i \in 1..Len(macd) |-> None]
    IN  IF Len(valid_macd) < signal
        THEN [macd |-> macd, signal_line |-> nones, histogram |-> nones]
        ELSE
        LET signal_ema == calculate_ema(valid_macd, signal)
            signal_line ==
                [i \in 1..(Len(macd) - Len(signal_ema)) |-> None] \o signal_ema
            histogram ==
                [i \in 1..Len(macd) |-> Difference(macd[i], signal_line[i])]
        IN  [macd |-> macd, signal_line |-> signal_line, histogram |-> histogram]

\* histogram = m - s if m and s else None
Histogram(m, s) ==
    IF Truthy(m) /\ Truthy(s) THEN Some(Val(m) - Val(s)) ELSE None

\* The MACD line and the signal line of the two latest candles are inputs of
\* the model (lines of exponential averages over the whole series); the
\* histogram is taken from them as calculate_macd does.
MacdAt(macd, back) ==
    IF back \in DOMAIN macd
    THEN [macd |-> Some(macd[back].m), macd_signal |-> Some(macd[back].s)]
    ELSE [macd |-> None, macd_signal |-> None]

\* indicators_desc[k]: the frame of the candle k places from the latest
Frame(data_asc, k, macd) ==
    LET i == Len(data_asc) - k
        ich == calculate_ichimoku(data_asc, i)
        line == MacdAt(macd, k)
    IN  [date |-> data_asc[i].date,
         close |-> data_asc[i].close,
         open |-> data_asc[i].open,
         high |-> data_asc[i].high,
         low |-> data_asc[i].low,
         macd |-> line.macd,
         macd_signal |-> line.macd_signal,
         macd_hist |-> Histogram(line.macd, line.macd_signal),
         tenkan_sen |-> ich.tenkan_sen,
         kijun_sen |-> ich.kijun_sen,
         senkou_span_a |-> ich.senkou_span_a,
         senkou_span_b |-> ich.senkou_span_b,
         chikou_span |-> ich.chikou_span]

\* calculate_indicators gives nothing for fewer than 60 candles
HasIndicators(data_asc) == Len(data_asc) >= MinCandles

(***************************************************************************)
(* fetch_single_stock_data                                                 *)
(***************************************************************************)
\* the open of the earliest intraday candle: sort_values('datetime').iloc[0]
EarliestOpen(intraday_data) ==
    LET t == Min({c.datetime : c \in Range(intraday_data)})
        first == Min({i \in DOMAIN intraday_data : intraday_data[i].datetime = t})
    IN  intraday_data[first].open

\* lines 2645-2652: append the snapshot row, turn the string dates into dates,
\* sort by date, latest first (reverse=True keeps the order of equal dates)
OverlayRows(data_desc, new_row) ==
    LET appended == Append(data_desc, new_row)
        converted == [i \in DOMAIN appended |->
                         IF IsStr(appended[i].date)
                         THEN [appended[i] EXCEPT !.date = strptime(@)]
                         ELSE appended[i]]
        sorted == SortPairs([i \in DOMAIN converted |->
                                <<converted[i], 0 - converted[i].date.day>>])
    IN  [i \in DOMAIN sorted |-> sorted[i][1]]

\* the locals of fetch_single_stock_data after the live-price block; open_price
\* is bound only inside that block (None stands for the unbound name)
WithoutSnapshot(data_desc) ==
    [data_desc |-> data_desc,
     current_price |-> data_desc[1].close,
     high_price |-> data_desc[1].high,
     low_price |-> data_desc[1].low,
     open_price |-> None]

WithSnapshot(data_desc, intraday_data) ==
    LET current_price == intraday_data[1].close
        high_price == Max({c.high : c \in Range(intraday_data)})
        low_price == Min({c.low : c \in Range(intraday_data)})
        open_price == EarliestOpen(intraday_data)
        new_row == [date |-> Today, open |-> open_price, high |-> high_price,
                    low |-> low_price, close |-> current_price, volume |-> 22]
    IN  [data_desc |-> OverlayRows(data_desc, new_row),
         current_price |-> current_price,
         high_price |-> high_price,
         low_price |-> low_price,
         open_price |-> Some(open_price)]

\* round(num / den * 100, 4), in units of 0.0001 (ties go to the even digit)
Round4Pct(num, den) ==
    LET q == (num * 1000000) \div den
        r == (num * 1000000) % den
    IN  IF 2 * r > den \/ (2 * r = den /\ q % 2 = 1) THEN q + 1 ELSE q

\* a variant that measures the up candle from its low
intraday_strength_pct_LowBranch(current_price, open_price, high_price, low_price) ==
    IF current_price > 0 THEN Round4Pct(current_price - low_price, current_price) ELSE 0

\* lines 2715-2726
intraday_strength_pct(current_price, open_price, high_price, low_price) ==
    IF current_price > open_price
    THEN IF current_price > 0
         THEN Round4Pct(high_price - current_price, current_price) ELSE 0
    ELSE IF current_price > 0
         THEN Round4Pct(current_price - low_price, current_price) ELSE 0

\* lines 2685-2688 and 2727-2752: the clauses of the two rule sets
Clauses(current_price, latest, previous, ref, has_ref) ==
    LET senkou_span_b == Val(latest.senkou_span_b)
        latest_macd_hist == Val(latest.macd_hist)
        previous_macd_hist == Val(previous.macd_hist)
        cloud_a_26 == ref.senkou_span_a
        cloud_b_26 == ref.senkou_span_b
        candle_26_close == ref.close
        chikou_span == latest.chikou_span
        both == Truthy(cloud_a_26) /\ Truthy(cloud_b_26)
        lagging == chikou_span # 0 /\ candle_26_close # 0
    IN  [cloud_bullish |-> current_price > senkou_span_b,
         cloud_bearish |-> current_price < senkou_span_b,
         macd_hist_increasing |-> latest_macd_hist > previous_macd_hist,
         macd_hist_decreasing |-> latest_macd_hist < previous_macd_hist,
         ichimoku_bullish_pass |->
            /\ has_ref
            /\ both /\ current_price > Val(cloud_a_26) /\ current_price > Val(cloud_b_26)
            /\ both /\ Val(cloud_a_26) > Val(cloud_b_26)
            /\ lagging /\ chikou_span > candle_26_close,
         ichimoku_bearish_pass |->
            /\ has_ref
            /\ both /\ current_price < Val(cloud_a_26) /\ current_price < Val(cloud_b_26)
            /\ both /\ Val(cloud_b_26) > Val(cloud_a_26)
            /\ lagging /\ chikou_span < candle_26_close,
         macd_positive |->
            latest_macd_hist > 0
                /\ Truthy(latest.macd_signal) /\ Val(latest.macd_signal) > 0,
         macd_negative |->
            latest_macd_hist < 0
                /\ Truthy(latest.macd_signal) /\ Val(latest.macd_signal) < 0,
         candle_up |-> latest.close > latest.open,
         candle_down |-> latest.close < latest.open]

\* a variant that leaves the checks of the frame 26 periods back out
Trend_WithoutReference(c) ==
    IF c.cloud_bullish /\ c.macd_positive /\ c.macd_hist_increasing /\ c.candle_up
    THEN "Bullish"
    ELSE IF c.cloud_bearish /\ c.macd_negative /\ c.macd_hist_decreasing
            /\ c.candle_down
    THEN "Bearish"
    ELSE "Neutral/Mixed"

\* a variant whose Bearish branch is taken on the cloud clause alone
Trend_CloudOnly(c) ==
    IF c.cloud_bullish /\ c.macd_positive /\ c.macd_hist_increasing
        /\ c.ichimoku_bullish_pass /\ c.candle_up
    THEN "Bullish"
    ELSE IF c.cloud_bearish THEN "Bearish" ELSE "Neutral/Mixed"

\* lines 2757-2762
Trend(c) ==
    IF c.cloud_bullish /\ c.macd_positive /\ c.macd_hist_increasing
        /\ c.ichimoku_bullish_pass /\ c.candle_up
    THEN "Bullish"
    ELSE IF c.cloud_bearish /\ c.macd_negative /\ c.macd_hist_decreasing
            /\ c.ichimoku_bearish_pass /\ c.candle_down
         THEN "Bearish"
         ELSE "Neutral/Mixed"

\* round(x, ndigits) of a whole number
Round(x) == x

NoResult == [none |-> TRUE]

InsufficientData_EmptyOnly(data_desc) == data_desc = <<>>

\* lines 2616-2617: `not data_desc or len(data_desc) < 60`
InsufficientData(data_desc) == data_desc = <<>> \/ Len(data_desc) < MinCandles

\* save_historical_data: INSERT OR REPLACE of every candle under the key
\* UNIQUE(symbol, date) and True, or False when the database raises
save_historical_data(rows, data, writable) ==
    IF writable
    THEN [rows |-> {r \in rows : \A i \in DOMAIN data : data[i].date # r.date}
                   \cup Range(data),
          ret |-> TRUE]
    ELSE [rows |-> rows, ret |-> FALSE]

AcquireSeries_RemoteFirst(in) ==
    IF in.use_mock
    THEN [data |-> generate_mock_historical_data(in.mock), source |-> "mock",
          calls |-> <<"generate_mock_historical_data">>]
    ELSE IF api_get_historical_data(in.remote) # <<>>
         THEN [data |-> api_get_historical_data(in.remote), source |-> "remote",
               calls |-> <<"api.get_historical_data", "save_historical_data">>]
         ELSE IF get_historical_data(in.cache) # <<>>
              THEN [data |-> get_historical_data(in.cache), source |-> "cache",
                    calls |-> <<"api.get_historical_data", "get_historical_data">>]
              ELSE [data |-> generate_mock_historical_data(in.mock),
                    source |-> "mock",
                    calls |-> <<"api.get_historical_data", "get_historical_data",
                                "generate_mock_historical_data">>]

\* a variant that also saves the generated series of the last fallback
AcquireSeries_SaveGenerated(in) ==
    IF in.use_mock
    THEN [data |-> generate_mock_historical_data(in.mock), source |-> "mock",
          calls |-> <<"generate_mock_historical_data">>]
    ELSE IF get_historical_data(in.cache) # <<>>
         THEN [data |-> get_historical_data(in.cache), source |-> "cache",
               calls |-> <<"get_historical_data">>]
         ELSE IF api_get_historical_data(in.remote) # <<>>
              THEN [data |-> api_get_historical_data(in.remote), source |-> "remote",
                    calls |-> <<"get_historical_data", "api.get_historical_data",
                                "save_historical_data">>]
              ELSE [data |-> generate_mock_historical_data(in.mock),
                    source |-> "mock",
                    calls |-> <<"get_historical_data", "api.get_historical_data",
                                "generate_mock_historical_data",
                                "save_historical_data">>]

\* lines 2605-2614: the series, where it came from, and the data functions
\* called to get it
AcquireSeries(in) ==
    IF in.use_mock
    THEN [data |-> generate_mock_historical_data(in.mock), source |-> "mock",
          calls |-> <<"generate_mock_historical_data">>]
    ELSE IF get_historical_data(in.cache) # <<>>
         THEN [data |-> get_historical_data(in.cache), source |-> "cache",
               calls |-> <<"get_historical_data">>]
         ELSE IF api_get_historical_data(in.remote) # <<>>
              THEN [data |-> api_get_historical_data(in.remote), source |-> "remote",
                    calls |-> <<"get_historical_data", "api.get_historical_data",
                                "save_historical_data">>]
              ELSE [data |-> generate_mock_historical_data(in.mock),
                    source |-> "mock",
                    calls |-> <<"get_historical_data", "api.get_historical_data",
                                "generate_mock_historical_data">>]

\* the data functions one call invokes, in order: nothing when stock["symbol"]
\* raises, the acquisition, then calculate_indicators (line 2666) unless the
\* series is too short
CallsOf(in) ==
    IF "symbol" \notin DOMAIN in.stock THEN <<>>
    ELSE AcquireSeries(in).calls
         \o (IF InsufficientData(AcquireSeries(in).data) THEN <<>>
             ELSE <<"calculate_indicators">>)

\* the table after the call: line 2612 is the only write
TableAfter(in, rows, writable) ==
    IF \E i \in DOMAIN CallsOf(in) : CallsOf(in)[i] = "save_historical_data"
    THEN save_historical_data(rows, AcquireSeries(in).data, writable).rows
    ELSE rows

\* the frames a result is built from: indicators_desc[0], [1] and [26]
UsedFrames == {0, 1, 26}

fetch_single_stock_data(in) ==
    IF ~({"symbol", "name"} \subseteq DOMAIN in.stock) THEN NoResult  \* KeyError
    ELSE
    LET data_desc == AcquireSeries(in).data
    IN  IF InsufficientData(data_desc) THEN NoResult
        ELSE
        LET live == in.use_live_data /\ ~in.use_mock /\ in.intraday # <<>>
            loc == IF live THEN WithSnapshot(data_desc, in.intraday)
                   ELSE WithoutSnapshot(data_desc)
            data_asc == Reverse(loc.data_desc)
        IN  IF ~HasIndicators(data_asc) THEN NoResult
            ELSE
            LET indicators_desc == [k \in UsedFrames |-> Frame(data_asc, k, in.macd)]
                latest == indicators_desc[0]
                previous == indicators_desc[1]
            IN  IF \/ IsNone(latest.senkou_span_b)
                   \/ IsNone(latest.macd_hist)
                   \/ IsNone(previous.macd_hist)
                THEN NoResult
                ELSE IF IsNone(loc.open_price) THEN NoResult   \* NameError
                ELSE
                LET c == Clauses(loc.current_price, latest, previous,
                                 indicators_desc[26], Len(data_asc) > 26)
                IN  [symbol |-> in.stock.symbol,
                     name |-> in.stock.name,
                     current_price |-> Round(loc.current_price),
                     high_price |-> Round(loc.high_price),
                     low_price |-> Round(loc.low_price),
                     senkou_span_b |-> Round(Val(latest.senkou_span_b)),
                     macd_hist |-> Round(Val(latest.macd_hist)),
                     prev_macd_hist |-> Round(Val(previous.macd_hist)),
                     trend |-> Trend(c),
                     intraday_strength_pct |->
                        intraday_strength_pct(loc.current_price, Val(loc.open_price),
                                              loc.high_price, loc.low_price),
                     indicators |-> indicators_desc,
                     raw_data |-> loc.data_desc]

(***************************************************************************)
(* TokenManager (lines 1425-1587)                                          *)
(*                                                                         *)
(* Time counts half seconds, so that datetime.now() has a part that the    *)
(* format '%Y-%m-%d %H:%M:%S' drops.  A token is a positive number and 0   *)
(* is the empty string.                                                    *)
(***************************************************************************)
HourSeconds == 3600
LeadMinutes == 30
DefaultExpiresIn == 86400
HTTP_OK == 200
HTTP_UNAUTHORIZED == 401
HTTP_SERVER_ERROR == 500

timedelta(seconds) == 2 * seconds

\* strftime('%Y-%m-%d %H:%M:%S') keeps whole seconds; strptime reads them back
strftime_seconds(t) == [text |-> t \div 2]
strptime_seconds(str) == 2 * str.text

\* SELECT ... ORDER BY id DESC LIMIT 1, then fetchone()
NoRow == [found |-> FALSE, access_token |-> None, refresh_token |-> None,
          expires_at |-> None]

MaxId(rows) == Max({rows[i].id : i \in DOMAIN rows})

fetchone(rows) ==
    IF rows = <<>> THEN NoRow
    ELSE LET r == CHOOSE r \in Range(rows) : r.id = MaxId(rows)
         IN  [found |-> TRUE, access_token |-> r.access_token,
              refresh_token |-> r.refresh_token, expires_at |-> r.expires_at]

\* a variant of the write that keeps the old rows
StoreAfterSave_Append(rows, access_token, refresh_token, expires_in, clock) ==
    Append(rows,
           [id |-> IF rows = <<>> THEN 1 ELSE MaxId(rows) + 1,
            access_token |-> access_token,
            refresh_token |-> refresh_token,
            expires_at |-> IF Truthy(expires_in)
                           THEN Some(strftime_seconds(clock + timedelta(Val(expires_in))))
                           ELSE None])

\* the transaction of save_token (lines 1433-1450): DELETE FROM api_tokens,
\* then INSERT of the one new row, whose id follows the largest rowid left
StoreAfterSave(rows, access_token, refresh_token, expires_in, clock) ==
    <<[id |-> 1,
       access_token |-> access_token,
       refresh_token |-> refresh_token,
       expires_at |-> IF Truthy(expires_in)
                      THEN Some(strftime_seconds(clock + timedelta(Val(expires_in))))
                      ELSE None]>>

\* expires_at <= datetime.now() + lead (lines 1466-1468 and 1494-1495)
NearExpiry(expires_at, clock, lead_seconds) ==
    strptime_seconds(Val(expires_at)) <= clock + timedelta(lead_seconds)

\* a variant that refreshes only a credential that has already expired
RefreshDue_ExpiredOnly(row, clock, lead_seconds) ==
    row.expires_at # None /\ NearExpiry(row.expires_at, clock, 0)

\* a variant that takes a record without expires_at for an expired one
RefreshDue_MissingIsDue(row, clock, lead_seconds) ==
    row.expires_at = None \/ NearExpiry(row.expires_at, clock, lead_seconds)

\* `if expires_at:` followed by the comparison
RefreshDue(row, clock, lead_seconds) ==
    row.expires_at # None /\ NearExpiry(row.expires_at, clock, lead_seconds)

(***************************************************************************)
(* The calls of fetch_single_stock_data that are explored                  *)
(***************************************************************************)
Stocks == {[symbol |-> "AAA", name |-> "Aaa Ltd"], [name |-> "Nameless Ltd"]}
GoodStock == [symbol |-> "AAA", name |-> "Aaa Ltd"]

SeriesLens == {40, 59, 60, 76, 77, 78}
Persisted == [n : SeriesLens, top : {0, -1}, shape : Shapes]

\* intraday candles of today, around the level of the daily series
IntradayCandle(t, o, h, l, c) ==
    [datetime |-> t, open |-> o, high |-> h, low |-> l, close |-> c]
UpCandle == IntradayCandle(1, 1196, 1212, 1192, 1208)
DownCandle == IntradayCandle(1, 1204, 1208, 1188, 1192)
LaterDownCandle == IntradayCandle(2, 1208, 1212, 1188, 1192)
GapDownCandle == IntradayCandle(1, 1196, 1200, 1076, 1080)
SpikeCandle == IntradayCandle(1, 1196, 2404, 1192, 1200)

\* what api.get_current_data gives, latest candle first; <<>> is None
Intradays ==
    {<<>>, <<UpCandle>>, <<DownCandle>>, <<GapDownCandle>>, <<SpikeCandle>>,
     <<LaterDownCandle, UpCandle>>}

MacdLine(m0, s0, m1, s1) == (0 :> [m |-> m0, s |-> s0]) @@ (1 :> [m |-> m1, s |-> s1])
MacdRising == MacdLine(12, 4, 8, 4)
MacdInputs ==
    {MacdRising, MacdLine(-12, -4, -8, -4), MacdLine(8, 4, 12, 4), MacdLine(0, 4, 8, 4)}

FetchInputs ==
    [stock : {GoodStock}, use_mock : {FALSE}, use_live_data : BOOLEAN,
     cache : Persisted, remote : {NoSeries}, mock : {"flat"},
     intraday : Intradays, macd : MacdInputs]
    \cup
    [stock : Stocks, use_mock : BOOLEAN, use_live_data : {TRUE},
     cache : {NoSeries}, remote : {NoSeries, [n |-> 78, top |-> -1, shape |-> "rise"]},
     mock : {"rise"}, intraday : {<<>>, <<UpCandle>>}, macd : {MacdRising}]

NotCalled == [called |-> FALSE]

(***************************************************************************)
(* UpstoxAPI.get_historical_data and get_current_data (lines 1595-1698)    *)
(*                                                                         *)
(* A token is a positive number and 0 is what get_token gives when there   *)
(* is no token or the refresh failed.  The broker's answer is a timeout, a *)
(* transport error, or a status with the candles of its body.              *)
(***************************************************************************)
HTTP_RATE_LIMITED == 429

PyNone == [none |-> TRUE]

\* get_headers: the headers with the bearer token, or None
get_headers(token) ==
    IF token # 0 THEN [Authorization |-> token] ELSE PyNone

\* lines 1607-1634: the candles of a 200 answer, None for everything else
UpstoxAPI_get_historical_data(env) ==
    IF get_headers(env.token) = PyNone THEN PyNone
    ELSE IF ~env.instrument_key THEN PyNone
    ELSE IF env.response.kind # "status" THEN PyNone          \* except: pass
    ELSE IF env.response.status = HTTP_OK
         THEN [candles |-> env.response.candles]
         ELSE PyNone

\* lines 1636-1698: (candles, error message)
UpstoxAPI_get_current_data(env) ==
    IF get_headers(env.token) = PyNone
    THEN [candles |-> PyNone, error |-> "No valid API token found"]
    ELSE IF ~env.instrument_key
    THEN [candles |-> PyNone, error |-> "Could not find instrument key for {symbol}"]
    ELSE IF env.response.kind = "timeout"
    THEN [candles |-> PyNone, error |-> "Timeout"]
    ELSE IF env.response.kind = "transport"
    THEN [candles |-> PyNone, error |-> "str(e)[:50]"]
    ELSE IF env.response.status = HTTP_OK
    THEN IF env.response.candles # <<>>
         THEN [candles |-> env.response.candles, error |-> "None"]
         ELSE IF ~env.market_hours
              THEN [candles |-> PyNone,
                    error |-> "Market closed - No live data available"]
              ELSE [candles |-> PyNone, error |-> "No candle data available"]
    ELSE IF env.response.status = HTTP_UNAUTHORIZED
    THEN [candles |-> PyNone, error |-> "Token expired"]
    ELSE IF env.response.status = HTTP_RATE_LIMITED
    THEN [candles |-> PyNone, error |-> "Rate limited"]
    ELSE [candles |-> PyNone, error |-> "HTTP {status_code}"]

ApiResponses ==
    {[kind |-> "timeout"], [kind |-> "transport"]}
    \cup [kind : {"status"}, status : {HTTP_OK},
          candles : {<<>>, <<1208>>, <<1208, 1192>>}]
    \cup [kind : {"status"},
          status : {HTTP_UNAUTHORIZED, HTTP_RATE_LIMITED, HTTP_SERVER_ERROR},
          candles : {<<>>}]

ApiEnvs ==
    [token : {0, 7}, instrument_key : BOOLEAN, response : ApiResponses,
     market_hours : BOOLEAN]

TradeIdle ==
    /\ trade_fn = "none"
    /\ trade_stocks = <<>>
    /\ trade_i = 0
    /\ trade_log = <<>>
    /\ trade_results = <<>>

ApiIdle ==
    /\ api_env = NotCalled
    /\ hist_ret = NotCalled
    /\ cur_ret = NotCalled

ItmIdle ==
    /\ itm_universe = [status |-> "ok", contracts |-> <<>>]
    /\ itm_args = NotCalled
    /\ itm_ret = NotCalled
    /\ exp_ret = NotCalled

FetchIdle ==
    /\ f_in = NotCalled
    /\ f_ret = NotCalled
    /\ f_calls = <<>>
    /\ daily_prices = {}
    /\ db_writable = TRUE

ClassIdle ==
    /\ cl_in = NotCalled
    /\ cl_trend = NotCalled

BgIdle ==
    /\ bg_submitted = 0
    /\ bg_future = <<>>
    /\ bg_yielded = {}
    /\ bg_results = <<>>
    /\ bg_pc = "idle"

TokenIdle ==
    /\ api_tokens = <<>>
    /\ now = 0
    /\ issued = 0
    /\ caller = <<>>

MacdIdle ==
    /\ macd_in = NotCalled
    /\ macd_ret = NotCalled
    /\ ema_in = NotCalled
    /\ ema_ret = NotCalled
    /\ ema_again = NotCalled

ScreenIdle ==
    /\ task = <<>>
    /\ submitted = 0
    /\ future = <<>>
    /\ yielded = {}
    /\ results = <<>>
    /\ completed = 0
    /\ pc = "idle"

FetchInit ==
    /\ f_in \in FetchInputs
    /\ f_ret = NotCalled
    /\ f_calls = <<>>
    /\ daily_prices = Range(SeriesOf(f_in.cache))
    \* a database that refuses writes matters to a call that writes: one
    \* that finds no cached rows
    /\ db_writable \in BOOLEAN
    /\ ~db_writable => f_in.cache = NoSeries
    /\ ItmIdle
    /\ ClassIdle
    /\ ScreenIdle
    /\ MacdIdle
    /\ TokenIdle
    /\ BgIdle
    /\ ApiIdle
    /\ TradeIdle

FetchSingleStockData ==
    /\ f_in # NotCalled
    /\ f_ret = NotCalled
    /\ f_ret' = fetch_single_stock_data(f_in)
    /\ f_calls' = CallsOf(f_in)
    /\ daily_prices' = TableAfter(f_in, daily_prices, db_writable)
    /\ UNCHANGED <<f_in, db_writable, itmVars, classVars, screenVars, macdVars, tokenVars, bgVars, apiVars, tradeVars>>

FetchNext == FetchSingleStockData

SpecFetch == FetchInit /\ [][FetchNext]_vars

(***************************************************************************)
(* TokenManager: the calls that are explored.  Each caller is a thread     *)
(* (a symbol task through UpstoxAPI.get_headers, or the page) that makes   *)
(* one TokenManager call after another; a call that asks the token         *)
(* endpoint waits for the response before it writes the table.             *)
(***************************************************************************)
NumCallers == 2
MaxCalls == 2

Callers == 1..NumCallers

NoResponse == [kind |-> "none", status |-> 0, access_token |-> None,
               refresh_token |-> None, expires_in |-> None]

\* what a call returned: the token, the status beside it (of
\* get_token_with_auto_refresh), what the token endpoint answered to the call
\* ("none" when it was not asked) and whether the call wrote the table
NoReturn == [returned |-> FALSE, token |-> None, status |-> "",
             endpoint |-> "none", saved |-> FALSE]

Return(token, status, endpoint, saved) ==
    [returned |-> TRUE, token |-> token, status |-> status,
     endpoint |-> endpoint, saved |-> saved]

\* a caller: the call it is in, where it is, whether its SELECT came back,
\* whether the row it read was due for a refresh, the refresh token it sent,
\* the response, the return value
IdleCaller == [op |-> "none", pc |-> "idle", read |-> FALSE, due |-> FALSE,
               sent |-> None, resp |-> NoResponse, ret |-> NoReturn, calls |-> 0]

\* what requests.post can give for a token request; n is the next token the
\* endpoint would issue.  A 200 carries the new access token, and either
\* both or neither of refresh_token and expires_in, or it carries a body
\* without any of the three fields.
ExpiresInValues == {None, Some(2 * HourSeconds)}

Responses(n) ==
    {[kind |-> "exception", status |-> 0, access_token |-> None,
      refresh_token |-> None, expires_in |-> None]}
    \cup {[kind |-> "http", status |-> st, access_token |-> None,
           refresh_token |-> None, expires_in |-> None] :
            st \in {HTTP_UNAUTHORIZED, HTTP_SERVER_ERROR}}
    \cup {[kind |-> "http", status |-> HTTP_OK, access_token |-> Some(n),
           refresh_token |-> IF e = None THEN None ELSE Some(n),
           expires_in |-> e] : e \in ExpiresInValues}
    \cup {[kind |-> "http", status |-> HTTP_OK, access_token |-> None,
           refresh_token |-> None, expires_in |-> None]}

StartClock == timedelta(DefaultExpiresIn)

\* seconds from the start to the expiry of the stored credential: expired,
\* inside both lead windows, between them, exactly one hour, and far
ExpiryOffsets == {0 - 60, 20 * 60, 45 * 60, HourSeconds, 2 * HourSeconds}

StoredRows ==
    {<<>>} \cup
    {<<[id |-> 1, access_token |-> Some(1), refresh_token |-> rt, expires_at |-> ex]>> :
        rt \in {None, Some(0), Some(1)},
        ex \in {None} \cup {Some(strftime_seconds(StartClock + timedelta(x))) :
                                x \in ExpiryOffsets}}

TokenInit ==
    /\ api_tokens \in StoredRows
    /\ now = StartClock
    /\ issued = 1
    /\ caller = [t \in Callers |-> IdleCaller]
    /\ ItmIdle
    /\ FetchIdle
    /\ ClassIdle
    /\ ScreenIdle
    /\ MacdIdle
    /\ BgIdle
    /\ ApiIdle
    /\ TradeIdle

OtherThanToken == <<itmVars, fetchVars, classVars, screenVars, macdVars, bgVars, apiVars, tradeVars>>

\* the calls made so far by the callers 1..k
RECURSIVE CallsMade(_)
CallsMade(k) == IF k = 0 THEN 0 ELSE CallsMade(k - 1) + caller[k].calls

CanCall(t) == caller[t].pc \in {"idle", "done"} /\ CallsMade(NumCallers) < MaxCalls

Begin(t, op) ==
    [IdleCaller EXCEPT !.op = op, !.calls = caller[t].calls + 1]

\* the caller's record when the call returns without asking the endpoint
Done(c, token, status) ==
    [c EXCEPT !.pc = "done", !.ret = Return(token, status, "none", FALSE)]

\* get_token (lines 1455-1477) up to its return or its refresh request
get_token(c, rows, db_ok) ==
    LET row == fetchone(rows)
        d == [c EXCEPT !.read = TRUE,
                       !.due = row.found /\ RefreshDue(row, now, HourSeconds)]
    IN  IF ~db_ok THEN Done(c, None, "")
        ELSE IF ~row.found THEN Done(d, None, "")
        ELSE IF RefreshDue(row, now, HourSeconds)
        THEN IF Truthy(row.refresh_token)
             THEN [d EXCEPT !.pc = "posting", !.sent = row.refresh_token]
             ELSE Done(d, None, "")
        ELSE Done(d, row.access_token, "")

\* get_token_with_auto_refresh (lines 1479-1512), likewise
get_token_with_auto_refresh(c, rows, db_ok) ==
    LET row == fetchone(rows)
        d == [c EXCEPT !.read = TRUE,
                       !.due = row.found /\ RefreshDue(row, now, LeadMinutes * 60)]
    IN  IF ~db_ok THEN Done(c, None, "error")
        ELSE IF ~row.found THEN Done(d, None, "no_token")
        ELSE IF RefreshDue(row, now, LeadMinutes * 60)
        THEN IF Truthy(row.refresh_token)
             THEN [d EXCEPT !.pc = "posting", !.sent = row.refresh_token]
             ELSE Done(d, None, "no_refresh_token")
        ELSE Done(d, row.access_token, "valid")

\* the status that get_token_with_auto_refresh puts beside the token
RefreshStatus(op, token) ==
    IF op = "get_token_with_auto_refresh"
    THEN IF Truthy(token) THEN "refreshed" ELSE "refresh_failed"
    ELSE ""

CallGetToken(t) ==
    /\ CanCall(t)
    /\ \E db_ok \in BOOLEAN :
        caller' = [caller EXCEPT ![t] = get_token(Begin(t, "get_token"), api_tokens, db_ok)]
    /\ UNCHANGED <<api_tokens, now, issued, OtherThanToken>>

CallGetTokenWithAutoRefresh(t) ==
    /\ CanCall(t)
    /\ \E db_ok \in BOOLEAN :
        caller' = [caller EXCEPT ![t] =
                     get_token_with_auto_refresh(
                         Begin(t, "get_token_with_auto_refresh"), api_tokens, db_ok)]
    /\ UNCHANGED <<api_tokens, now, issued, OtherThanToken>>

\* the page's refresh button: refresh_token_method with the stored refresh token
CallRefreshTokenMethod(t) ==
    /\ CanCall(t)
    /\ Truthy(fetchone(api_tokens).refresh_token)
    /\ caller' = [caller EXCEPT ![t] =
                    [Begin(t, "refresh_token_method") EXCEPT
                        !.pc = "posting",
                        !.sent = fetchone(api_tokens).refresh_token]]
    /\ UNCHANGED <<api_tokens, now, issued, OtherThanToken>>

\* get_new_token(auth_code) up to its request (lines 1564-1576)
CallGetNewToken(t) ==
    /\ CanCall(t)
    /\ caller' = [caller EXCEPT ![t] =
                    [Begin(t, "get_new_token") EXCEPT !.pc = "posting"]]
    /\ UNCHANGED <<api_tokens, now, issued, OtherThanToken>>

\* save_token(manual_token): one transaction, or an exception that leaves
\* the table as it was
CallSaveToken(t) ==
    /\ CanCall(t)
    /\ \E db_ok \in BOOLEAN :
        /\ api_tokens' = IF db_ok
                         THEN StoreAfterSave(api_tokens, Some(issued + 1), None, None, now)
                         ELSE api_tokens
        /\ caller' = [caller EXCEPT ![t] =
                        [Begin(t, "save_token") EXCEPT
                            !.pc = "done",
                            !.ret = Return(IF db_ok THEN Some(issued + 1) ELSE None,
                                           "", "none", db_ok)]]
    /\ issued' = issued + 1
    /\ UNCHANGED <<now, OtherThanToken>>

\* requests.post returns or raises (lines 1516-1526 and 1566-1576); any
\* status but 200, and any exception, ends the call with None
ReceiveResponse(t) ==
    /\ caller[t].pc = "posting"
    /\ \E resp \in Responses(issued + 1) :
        /\ caller' = [caller EXCEPT ![t] =
                        IF resp.kind = "http" /\ resp.status = HTTP_OK
                        THEN [caller[t] EXCEPT !.pc = "saving", !.resp = resp]
                        ELSE [caller[t] EXCEPT
                                !.pc = "done", !.sent = None,
                                !.ret = Return(None, RefreshStatus(caller[t].op, None),
                                               "rejected", FALSE)]]
        /\ issued' = IF resp.kind = "http" /\ resp.status = HTTP_OK
                     THEN issued + 1 ELSE issued
    /\ UNCHANGED <<api_tokens, now, OtherThanToken>>

\* what the call passes to save_token after a 200 (lines 1527-1531, 1577-1583)
SavedRefreshToken(c) ==
    IF c.op = "get_new_token" THEN c.resp.refresh_token
    ELSE IF c.resp.refresh_token = None THEN c.sent ELSE c.resp.refresh_token

SavedExpiresIn(c) ==
    IF c.op = "get_new_token" THEN c.resp.expires_in
    ELSE IF c.resp.expires_in = None THEN Some(DefaultExpiresIn) ELSE c.resp.expires_in

\* save_token of the new credential, then the return of the new access token
SaveAndReturn(t) ==
    /\ caller[t].pc = "saving"
    /\ \E db_ok \in BOOLEAN :
        /\ api_tokens' = IF db_ok
                         THEN StoreAfterSave(api_tokens, caller[t].resp.access_token,
                                             SavedRefreshToken(caller[t]),
                                             SavedExpiresIn(caller[t]), now)
                         ELSE api_tokens
        /\ caller' = [caller EXCEPT ![t] =
                        [caller[t] EXCEPT
                            !.pc = "done", !.sent = None, !.resp = NoResponse,
                            !.ret = Return(caller[t].resp.access_token,
                                           RefreshStatus(caller[t].op,
                                                         caller[t].resp.access_token),
                                           "accepted", db_ok)]]
    /\ UNCHANGED <<now, issued, OtherThanToken>>

\* time passes: the shorter lead window and half a second
Advance ==
    /\ now = StartClock
    /\ now' = now + timedelta(LeadMinutes * 60) + 1
    /\ UNCHANGED <<api_tokens, issued, caller, OtherThanToken>>

TokenNext ==
    \/ \E t \in Callers :
        \/ CallGetToken(t)
        \/ CallGetTokenWithAutoRefresh(t)
        \/ CallRefreshTokenMethod(t)
        \/ CallGetNewToken(t)
        \/ CallSaveToken(t)
        \/ ReceiveResponse(t)
        \/ SaveAndReturn(t)
    \/ Advance

SpecToken == TokenInit /\ [][TokenNext]_vars

(***************************************************************************)
(* calculate_macd on its own: the calls that are explored                  *)
(***************************************************************************)
MaxPrices == 6

\* closes of the series; 0 is a price whose averages are falsy
PriceValues == {0, 3, 6}

\* (fast, slow, signal) of the call
Periods == {<<1, 2, 2>>, <<2, 3, 2>>, <<2, 3, 3>>}

MacdCalls ==
    {[called |-> TRUE, prices |-> [i \in DOMAIN p |-> QInt(p[i])],
      fast |-> per[1], slow |-> per[2], signal |-> per[3]] :
        p \in SeqsUpTo(PriceValues, MaxPrices) \ SeqsUpTo(PriceValues, 3),
        per \in Periods}

(***************************************************************************)
(* The two data calls of UpstoxAPI, each made once in one environment.     *)
(***************************************************************************)
ApiInit ==
    /\ api_env \in ApiEnvs
    /\ hist_ret = NotCalled
    /\ cur_ret = NotCalled
    /\ ItmIdle
    /\ FetchIdle
    /\ ClassIdle
    /\ ScreenIdle
    /\ MacdIdle
    /\ TokenIdle
    /\ BgIdle
    /\ TradeIdle

GetHistoricalData ==
    /\ api_env # NotCalled
    /\ hist_ret = NotCalled
    /\ hist_ret' = UpstoxAPI_get_historical_data(api_env)
    /\ UNCHANGED <<api_env, cur_ret, itmVars, fetchVars, classVars, screenVars,
                   macdVars, tokenVars, bgVars, tradeVars>>

GetCurrentData ==
    /\ api_env # NotCalled
    /\ cur_ret = NotCalled
    /\ cur_ret' = UpstoxAPI_get_current_data(api_env)
    /\ UNCHANGED <<api_env, hist_ret, itmVars, fetchVars, classVars, screenVars,
                   macdVars, tokenVars, bgVars, tradeVars>>

ApiNext == GetHistoricalData \/ GetCurrentData

SpecApi == ApiInit /\ [][ApiNext]_vars

MacdInit ==
    /\ macd_in \in MacdCalls
    /\ macd_ret = NotCalled
    /\ ema_in = NotCalled
    /\ ema_ret = NotCalled
    /\ ema_again = NotCalled
    /\ ItmIdle
    /\ FetchIdle
    /\ ClassIdle
    /\ ScreenIdle
    /\ TokenIdle
    /\ BgIdle
    /\ ApiIdle
    /\ TradeIdle

CalculateMacd ==
    /\ macd_ret = NotCalled
    /\ macd_ret' = calculate_macd(macd_in.prices, macd_in.fast, macd_in.slow,
                                  macd_in.signal)
    /\ UNCHANGED <<macd_in, ema_in, ema_ret, ema_again, itmVars, fetchVars, classVars, screenVars, tokenVars, bgVars, apiVars, tradeVars>>

MacdNext == CalculateMacd

SpecMacd == MacdInit /\ [][MacdNext]_vars

(***************************************************************************)
(* calculate_ema on its own: one call, and a second call on the same       *)
(* arguments.  The periods are positive, as those of every call site are.  *)
(***************************************************************************)
EmaPeriods == 1..4

EmaCalls ==
    {[called |-> TRUE, prices |-> [i \in DOMAIN p |-> QInt(p[i])], period |-> n] :
        p \in SeqsUpTo(PriceValues, MaxPrices), n \in EmaPeriods}

EmaInit ==
    /\ ema_in \in EmaCalls
    /\ ema_ret = NotCalled
    /\ ema_again = NotCalled
    /\ macd_in = NotCalled
    /\ macd_ret = NotCalled
    /\ ItmIdle
    /\ FetchIdle
    /\ ClassIdle
    /\ ScreenIdle
    /\ TokenIdle
    /\ BgIdle
    /\ ApiIdle
    /\ TradeIdle

CalculateEma ==
    /\ ema_in # NotCalled
    /\ ema_ret = NotCalled
    /\ ema_ret' = [ema |-> calculate_ema(ema_in.prices, ema_in.period)]
    /\ UNCHANGED <<ema_in, ema_again, macd_in, macd_ret, itmVars, fetchVars,
                   classVars, screenVars, tokenVars, bgVars, apiVars, tradeVars>>

CalculateEmaAgain ==
    /\ ema_ret # NotCalled
    /\ ema_again = NotCalled
    /\ ema_again' = [ema |-> calculate_ema(ema_in.prices, ema_in.period)]
    /\ UNCHANGED <<ema_in, ema_ret, macd_in, macd_ret, itmVars, fetchVars,
                   classVars, screenVars, tokenVars, bgVars, apiVars, tradeVars>>

EmaNext == CalculateEma \/ CalculateEmaAgain

SpecEma == EmaInit /\ [][EmaNext]_vars

(***************************************************************************)
(* The trend classifier on its own: lines 2671-2762 of                     *)
(* fetch_single_stock_data, applied to the values it reads from            *)
(* indicators_desc[0], [1] and [26].  The three values the function        *)
(* requires (lines 2674-2679) are present; chikou_span is the close of its *)
(* own frame, as calculate_ichimoku sets it.                               *)
(***************************************************************************)
Levels == {1, 2, 3}
HistValues == {-3, -1, 0, 1, 3}
PrevHistValues == {-2, 2}
SignalValues == {None, Some(-1), Some(0), Some(1)}
CloudValues == {None} \cup {Some(v) : v \in Levels}

Evidence(current_price, close, open, span_b, hist, signal, prev_hist, a26, b26, close26) ==
    [current_price |-> current_price,
     latest |-> [close |-> close, open |-> open, senkou_span_b |-> Some(span_b),
                 macd_hist |-> Some(hist), macd_signal |-> signal,
                 chikou_span |-> close],
     previous |-> [macd_hist |-> Some(prev_hist)],
     ref |-> [senkou_span_a |-> a26, senkou_span_b |-> b26, close |-> close26]]

\* the verdict of lines 2685-2762 on the evidence e
Verdict(e) == Trend(Clauses(e.current_price, e.latest, e.previous, e.ref, TRUE))

ClassInit ==
    /\ \E current_price, close, open, span_b, close26 \in Levels,
          hist \in HistValues, signal \in SignalValues,
          prev_hist \in PrevHistValues, a26, b26 \in CloudValues :
            cl_in = Evidence(current_price, close, open, span_b, hist, signal,
                             prev_hist, a26, b26, close26)
    /\ cl_trend = Verdict(cl_in)
    /\ ItmIdle
    /\ FetchIdle
    /\ ScreenIdle
    /\ MacdIdle
    /\ TokenIdle
    /\ BgIdle
    /\ ApiIdle
    /\ TradeIdle

\* the same symbol is classified again after one value of its evidence changed
Reclassify(e) ==
    /\ e # cl_in
    /\ cl_in' = e
    /\ cl_trend' = Verdict(e)
    /\ UNCHANGED <<itmVars, fetchVars, screenVars, macdVars, tokenVars, bgVars, apiVars, tradeVars>>

ChangePrice ==
    \E v \in Levels : Reclassify([cl_in EXCEPT !.current_price = v])

ChangeLatestCandle ==
    \/ \E v \in Levels :
        Reclassify([cl_in EXCEPT !.latest.close = v, !.latest.chikou_span = v])
    \/ \E v \in Levels : Reclassify([cl_in EXCEPT !.latest.open = v])

ChangeCloud ==
    \/ \E v \in Levels : Reclassify([cl_in EXCEPT !.latest.senkou_span_b = Some(v)])
    \/ \E v \in CloudValues : Reclassify([cl_in EXCEPT !.ref.senkou_span_a = v])
    \/ \E v \in CloudValues : Reclassify([cl_in EXCEPT !.ref.senkou_span_b = v])
    \/ \E v \in Levels : Reclassify([cl_in EXCEPT !.ref.close = v])

ChangeMacd ==
    \/ \E v \in HistValues : Reclassify([cl_in EXCEPT !.latest.macd_hist = Some(v)])
    \/ \E v \in SignalValues : Reclassify([cl_in EXCEPT !.latest.macd_signal = v])
    \/ \E v \in PrevHistValues :
        Reclassify([cl_in EXCEPT !.previous.macd_hist = Some(v)])

ClassNext == ChangePrice \/ ChangeLatestCandle \/ ChangeCloud \/ ChangeMacd

SpecClassify == ClassInit /\ [][ClassNext]_vars

(***************************************************************************)
(* screen_stocks: a ThreadPoolExecutor runs fetch_single_stock_data once   *)
(* per stock; the caller collects the futures in the order as_completed    *)
(* yields them.                                                            *)
(***************************************************************************)
NumStocks == 3
MAX_PARALLEL_WORKERS == 2

StockIds == 1..NumStocks

\* what the task of a stock meets: a series and a snapshot that give a
\* result, no snapshot, a stock dict without "symbol", a task function that
\* raises, and a fetch that never comes back
TaskKinds == {"result", "no_snapshot", "malformed", "raises", "hangs"}

StockOf(i) == [symbol |-> i, name |-> "Ltd"]

\* the arguments and the surroundings of the call for stock i
TaskInput(i, kind) ==
    [stock |-> IF kind = "malformed" THEN [name |-> "Ltd"] ELSE StockOf(i),
     use_mock |-> FALSE,
     use_live_data |-> TRUE,
     cache |-> [n |-> 60, top |-> -1, shape |-> "rise"],
     remote |-> NoSeries,
     mock |-> "flat",
     intraday |-> IF kind = "no_snapshot" THEN <<>> ELSE <<UpCandle>>,
     macd |-> MacdRising]

\* what fetch_single_stock_data returns for stock i when its task meets `kind`
TaskValue ==
    [i \in StockIds, kind \in TaskKinds \ {"raises", "hangs"} |->
        fetch_single_stock_data(TaskInput(i, kind))]

Pending == [state |-> "pending", raised |-> FALSE, value |-> NoResult, overdue |-> FALSE]

ScreenInit ==
    /\ task \in [StockIds -> TaskKinds]
    /\ submitted = 0
    /\ future = [i \in StockIds |-> Pending]
    /\ yielded = {}
    /\ results = <<>>
    /\ completed = 0
    /\ pc = "submit"
    /\ ItmIdle
    /\ FetchIdle
    /\ ClassIdle
    /\ MacdIdle
    /\ TokenIdle
    /\ BgIdle
    /\ ApiIdle
    /\ TradeIdle

\* the work items that hold a worker thread of the pool
Running == {i \in StockIds : future[i].state = "running"}

\* executor.submit for the next stock of stock_list (lines 2804-2814)
Submit ==
    /\ pc = "submit"
    /\ submitted < NumStocks
    /\ submitted' = submitted + 1
    /\ pc' = IF submitted + 1 = NumStocks THEN "collect" ELSE "submit"
    /\ UNCHANGED <<task, future, yielded, results, completed>>
    /\ UNCHANGED <<itmVars, fetchVars, classVars, macdVars, tokenVars, bgVars, apiVars, tradeVars>>

\* a worker of the pool takes the oldest queued work item
StartTask ==
    /\ Cardinality(Running) < MAX_PARALLEL_WORKERS
    /\ \E i \in StockIds :
        /\ i <= submitted
        /\ future[i].state = "pending"
        /\ \A j \in StockIds : j < i => future[j].state # "pending"
        /\ future' = [future EXCEPT ![i].state = "running"]
    /\ UNCHANGED <<task, submitted, yielded, results, completed, pc>>
    /\ UNCHANGED <<itmVars, fetchVars, classVars, macdVars, tokenVars, bgVars, apiVars, tradeVars>>

\* the task of stock i returns or raises; its future is done
FinishTask ==
    \E i \in Running :
        /\ task[i] # "hangs"
        /\ future' = [future EXCEPT
                        ![i].state = "finished",
                        ![i].raised = (task[i] = "raises"),
                        ![i].value = IF task[i] = "raises" THEN NoResult
                                     ELSE TaskValue[i, task[i]]]
        /\ UNCHANGED <<task, submitted, yielded, results, completed, pc>>
        /\ UNCHANGED <<itmVars, fetchVars, classVars, macdVars, tokenVars, bgVars, apiVars, tradeVars>>

\* the task of stock i has now run for longer than the 10 seconds of
\* future.result(timeout=10)
TimeoutPasses ==
    \E i \in Running :
        /\ ~future[i].overdue
        /\ future' = [future EXCEPT ![i].overdue = TRUE]
        /\ UNCHANGED <<task, submitted, yielded, results, completed, pc>>
        /\ UNCHANGED <<itmVars, fetchVars, classVars, macdVars, tokenVars, bgVars, apiVars, tradeVars>>

\* future.result(timeout=10): the value of a finished future, or an exception
\* (its own, or TimeoutError when the future is not done within the timeout)
FutureResult(f) ==
    IF f.state = "finished"
    THEN [raised |-> f.raised, value |-> f.value]
    ELSE [raised |-> TRUE, value |-> NoResult]

\* a variant in which an exception of one future ends the collection
AfterResult_Abort(r) ==
    IF r.raised THEN <<>>
    ELSE IF r.value # NoResult THEN Append(results, r.value) ELSE results

\* lines 2821-2826: `results` after the try block around future.result
AfterResult(r) ==
    IF r.raised THEN results
    ELSE IF r.value # NoResult THEN Append(results, r.value) ELSE results

\* a variant that counts only the futures that gave a value
CompletedAfter_ValuesOnly(r) ==
    IF r.raised THEN completed ELSE completed + 1

\* line 2819: `completed += 1`, before the result r of the future is asked for
CompletedAfter(r) == completed + 1

\* one turn of the loop over as_completed (lines 2817-2832): it yields a
\* future that is done and has not been yielded
Collect ==
    /\ pc = "collect"
    /\ \E i \in StockIds \ yielded :
        /\ future[i].state = "finished"
        /\ yielded' = yielded \cup {i}
        /\ completed' = CompletedAfter(FutureResult(future[i]))
        /\ results' = AfterResult(FutureResult(future[i]))
    /\ UNCHANGED <<task, submitted, future, pc>>
    /\ UNCHANGED <<itmVars, fetchVars, classVars, macdVars, tokenVars, bgVars, apiVars, tradeVars>>

\* as_completed is exhausted, the executor shuts down, `results` is returned
ReturnResults ==
    /\ pc = "collect"
    /\ yielded = StockIds
    /\ pc' = "returned"
    /\ UNCHANGED <<task, submitted, future, yielded, results, completed>>
    /\ UNCHANGED <<itmVars, fetchVars, classVars, macdVars, tokenVars, bgVars, apiVars, tradeVars>>

Next ==
    \/ Submit
    \/ StartTask
    \/ FinishTask
    \/ TimeoutPasses
    \/ Collect
    \/ ReturnResults

Spec == ScreenInit /\ [][Next]_vars

\* the same pass with its scheduling: the caller keeps submitting and
\* collecting, an idle worker takes the next queued work item, and a task
\* that can return does.  The tasks are those that differ in how they end:
\* with a result, with an exception, never.
FairInit ==
    /\ ScreenInit
    /\ \A i \in StockIds : task[i] \in {"result", "raises", "hangs"}

FairSpec ==
    /\ FairInit
    /\ [][Next]_vars
    /\ WF_vars(Submit)
    /\ WF_vars(StartTask)
    /\ WF_vars(FinishTask)
    /\ WF_vars(Collect)
    /\ WF_vars(ReturnResults)

(***************************************************************************)
(* background_refresh_data (lines 3925-3950): the same pool and the same   *)
(* loop without the progress report.  It is called for the stock list and  *)
(* the task outcomes of a screen_stocks pass that has returned.            *)
(***************************************************************************)
OtherThanRefresh == <<itmVars, fetchVars, classVars, screenVars, macdVars, tokenVars, apiVars, tradeVars>>

BgRunning == {i \in StockIds : bg_future[i].state = "running"}

\* the call, up to the executor (lines 3931-3932)
BgCall ==
    /\ pc = "returned"
    /\ bg_pc = "idle"
    /\ bg_future' = [i \in StockIds |-> Pending]
    /\ bg_pc' = "submit"
    /\ UNCHANGED <<bg_submitted, bg_yielded, bg_results, OtherThanRefresh>>

\* executor.submit for the next stock (lines 3933-3943)
BgSubmit ==
    /\ bg_pc = "submit"
    /\ bg_submitted < NumStocks
    /\ bg_submitted' = bg_submitted + 1
    /\ bg_pc' = IF bg_submitted + 1 = NumStocks THEN "collect" ELSE "submit"
    /\ UNCHANGED <<bg_future, bg_yielded, bg_results, OtherThanRefresh>>

BgStartTask ==
    /\ bg_pc \in {"submit", "collect"}
    /\ Cardinality(BgRunning) < MAX_PARALLEL_WORKERS
    /\ \E i \in StockIds :
        /\ i <= bg_submitted
        /\ bg_future[i].state = "pending"
        /\ \A j \in StockIds : j < i => bg_future[j].state # "pending"
        /\ bg_future' = [bg_future EXCEPT ![i].state = "running"]
    /\ UNCHANGED <<bg_submitted, bg_yielded, bg_results, bg_pc, OtherThanRefresh>>

BgFinishTask ==
    /\ bg_pc \in {"submit", "collect"}
    /\ \E i \in BgRunning :
        /\ task[i] # "hangs"
        /\ bg_future' = [bg_future EXCEPT
                            ![i].state = "finished",
                            ![i].raised = (task[i] = "raises"),
                            ![i].value = IF task[i] = "raises" THEN NoResult
                                         ELSE TaskValue[i, task[i]]]
        /\ UNCHANGED <<bg_submitted, bg_yielded, bg_results, bg_pc, OtherThanRefresh>>

\* a variant that keeps what the task returned even when it is None
BgAfterResult_KeepNone(r) ==
    IF r.raised THEN bg_results ELSE Append(bg_results, r.value)

\* lines 3945-3950: `results` after the try block around future.result
BgAfterResult(r) ==
    IF r.raised THEN bg_results
    ELSE IF r.value # NoResult THEN Append(bg_results, r.value) ELSE bg_results

\* one turn of the loop over as_completed (lines 3944-3950)
BgCollect ==
    /\ bg_pc = "collect"
    /\ \E i \in StockIds \ bg_yielded :
        /\ bg_future[i].state = "finished"
        /\ bg_yielded' = bg_yielded \cup {i}
        /\ bg_results' = BgAfterResult(FutureResult(bg_future[i]))
    /\ UNCHANGED <<bg_submitted, bg_future, bg_pc, OtherThanRefresh>>

BgReturnResults ==
    /\ bg_pc = "collect"
    /\ bg_yielded = StockIds
    /\ bg_pc' = "returned"
    /\ UNCHANGED <<bg_submitted, bg_future, bg_yielded, bg_results, OtherThanRefresh>>

RefreshInit ==
    /\ ScreenInit
    /\ \A i \in StockIds : task[i] # "hangs"

\* a screen_stocks pass, then a background_refresh_data pass
RefreshNext ==
    \/ Submit
    \/ StartTask
    \/ FinishTask
    \/ Collect
    \/ ReturnResults
    \/ BgCall
    \/ BgSubmit
    \/ BgStartTask
    \/ BgFinishTask
    \/ BgCollect
    \/ BgReturnResults

SpecRefresh == RefreshInit /\ [][RefreshNext]_vars

(***************************************************************************)
(* ITM contract selector                                                   *)
(***************************************************************************)
MaxContracts == 3

OptionTypes == {"CE", "PE"}
Strikes == {950, 980, 1010}
Expiries == {1, 2}          \* expiry dates, in calendar order
SpotPrices == {940, 1000, 1020}

\* a contract of the catalog; NoContract is Python's None in a contract slot
Contracts ==
    [instrument_type : OptionTypes, strike_price : Strikes, expiry : Expiries]
NoContract == [none |-> TRUE]

\* an error message; an f-string keeps its interpolated values as fields
NoError == [none |-> TRUE]
Error(text) == [text |-> text]

\* the catalog's state for the symbol: its contract list, a failing endpoint,
\* or a symbol without ISIN
Universes ==
    [status : {"ok"}, contracts : SeqsUpTo(Contracts, MaxContracts)]
        \cup [status : {"failed", "no_isin"}, contracts : {<<>>}]

\* get_option_contracts: the catalog filters by expiry_date when one is given
get_option_contracts(universe, expiry_date) ==
    IF universe.status = "failed"
    THEN [contracts |-> None, error |-> Error("HTTP 500")]
    ELSE [contracts |-> Some(IF IsNone(expiry_date) THEN universe.contracts
                             ELSE SelectSeq(universe.contracts,
                                            LAMBDA c : c.expiry = Val(expiry_date))),
          error |-> NoError]

get_option_contracts_for_stock(universe, expiry_date) ==
    IF universe.status = "no_isin"
    THEN [contracts |-> None, error |-> Error("Could not find ISIN for {symbol}")]
    ELSE get_option_contracts(universe, expiry_date)

\* a variant that tests only for None, so that an empty list passes
NoContracts_NoneOnly(r) == IsNone(r.contracts)

\* "not contracts": None or the empty list
NoContracts(r) == IsNone(r.contracts) \/ Val(r.contracts) = <<>>

\* a variant that ranks the deepest in-the-money contract first
ItmPairs_Deepest(filtered, current_price, option_type) ==
    LET Itm(c) == IF option_type = "CE" THEN c.strike_price < current_price
                  ELSE c.strike_price > current_price
        Dist(c) == IF option_type = "CE" THEN c.strike_price - current_price
                   ELSE current_price - c.strike_price
        itm == SelectSeq(filtered, Itm)
    IN  [i \in DOMAIN itm |-> <<itm[i], Dist(itm[i])>>]

\* the (contract, distance) pairs of the in-the-money contracts, in list order
ItmPairs(filtered, current_price, option_type) ==
    LET Itm(c) == IF option_type = "CE" THEN c.strike_price < current_price
                  ELSE c.strike_price > current_price
        Dist(c) == IF option_type = "CE" THEN current_price - c.strike_price
                   ELSE c.strike_price - current_price
        itm == SelectSeq(filtered, Itm)
    IN  [i \in DOMAIN itm |-> <<itm[i], Dist(itm[i])>>]

find_itm_option(universe, current_price, option_type, expiry_date) ==
    LET r == get_option_contracts_for_stock(universe, expiry_date)
    IN  IF NoContracts(r)
        THEN [contract |-> NoContract,
              error |-> IF r.error # NoError THEN r.error
                        ELSE Error("No contracts found")]
        ELSE
        LET filtered_contracts ==
                SelectSeq(Val(r.contracts), LAMBDA c : c.instrument_type = option_type)
        IN  IF filtered_contracts = <<>>
            THEN [contract |-> NoContract,
                  error |-> [text |-> "No {option_type} contracts found",
                             option_type |-> option_type]]
            ELSE
            LET itm_contracts == ItmPairs(filtered_contracts, current_price, option_type)
            IN  IF itm_contracts = <<>>
                THEN [contract |-> NoContract,
                      error |-> [text |-> "No ITM {option_type} contracts found for price {current_price}",
                                 option_type |-> option_type,
                                 current_price |-> current_price]]
                ELSE [contract |-> SortPairs(itm_contracts)[1][1],
                      error |-> NoError]

get_nearest_expiry(universe) ==
    LET r == get_option_contracts_for_stock(universe, None)
    IN  IF NoContracts(r)
        THEN [expiry |-> None,
              error |-> IF r.error # NoError THEN r.error
                        ELSE Error("No expiry dates found")]
        ELSE [expiry |-> Some(Min({c.expiry : c \in Range(Val(r.contracts))})),
              error |-> NoError]

ItmInit ==
    /\ itm_universe \in Universes
    /\ itm_args = NotCalled
    /\ itm_ret = NotCalled
    /\ exp_ret = NotCalled
    /\ FetchIdle
    /\ ClassIdle
    /\ ScreenIdle
    /\ MacdIdle
    /\ TokenIdle
    /\ BgIdle
    /\ ApiIdle
    /\ TradeIdle

\* a caller asks for the nearest ITM contract, with or without an expiry
FindItmOption ==
    \E current_price \in SpotPrices, option_type \in OptionTypes,
       expiry_date \in {None} \cup {Some(e) : e \in Expiries} :
        /\ itm_args = NotCalled
        /\ itm_args' = [called |-> TRUE, current_price |-> current_price,
                        option_type |-> option_type, expiry_date |-> expiry_date]
        /\ itm_ret' = find_itm_option(itm_universe, current_price, option_type,
                                      expiry_date)
        /\ UNCHANGED <<itm_universe, exp_ret, fetchVars, classVars, screenVars, macdVars, tokenVars, bgVars, apiVars, tradeVars>>

GetNearestExpiry ==
    /\ exp_ret = NotCalled
    /\ exp_ret' = get_nearest_expiry(itm_universe)
    /\ UNCHANGED <<itm_universe, itm_args, itm_ret, fetchVars, classVars, screenVars, macdVars, tokenVars, bgVars, apiVars, tradeVars>>

ItmNext == FindItmOption \/ GetNearestExpiry

SpecItm == ItmInit /\ [][ItmNext]_vars

(***************************************************************************)
(* execute_option_trade_strategy (lines 2253-2397) and                     *)
(* execute_trades_with_progress (lines 3017-3132)                          *)
(*                                                                         *)
(* One loop iteration handles one stock: it asks the broker for the        *)
(* nearest expiry, the ITM contract and the last traded price, places the  *)
(* BUY and then the SELL order, and appends one result entry.  An order id *)
(* is a positive number and 0 is None; an error message is a text and ""   *)
(* is None.  What the broker answers to each call is chosen per stock.     *)
(***************************************************************************)
NumTradeStocks == 2

TradeStockIds == 1..NumTradeStocks
Trends == {"Bullish", "Bearish", "Neutral/Mixed"}

\* the catalogs a traded symbol can have
TradeUniverses ==
    {[status |-> "failed", contracts |-> <<>>],
     [status |-> "ok", contracts |-> <<>>],
     [status |-> "ok",
      contracts |-> <<[instrument_type |-> "CE", strike_price |-> 980, expiry |-> 1],
                      [instrument_type |-> "PE", strike_price |-> 1010, expiry |-> 1]>>],
     [status |-> "ok",
      contracts |-> <<[instrument_type |-> "PE", strike_price |-> 1010, expiry |-> 1]>>]}

\* get_ltp's answers: a price, an error, a last_price that is null, and one
\* that is a text (on which the price arithmetic raises TypeError)
LtpOutcomes ==
    {[kind |-> "price", error |-> ""], [kind |-> "none", error |-> "HTTP 500"],
     [kind |-> "null", error |-> ""], [kind |-> "text", error |-> ""]}

\* place_order's answers (lines 2068-2090): (order_id, None); (None, message);
\* and (None, None) for a 200 `success` body without data.order_id
OrderOutcomes(id) ==
    {[order_id |-> id, error |-> ""], [order_id |-> 0, error |-> "API Error"],
     [order_id |-> 0, error |-> ""]}

BrokerAnswers ==
    [universe : TradeUniverses, has_key : BOOLEAN, ltp : LtpOutcomes,
     buy : OrderOutcomes(11), sell : OrderOutcomes(12)]

\* get_ltp: quote(None) raises inside its try when there is no instrument key
get_ltp(has_key, answer) ==
    IF has_key THEN answer ELSE [kind |-> "none", error |-> "Error: {str(e)}"]

Call(i, name, side, contract, order_id) ==
    [stock |-> i, call |-> name, side |-> side, contract |-> contract,
     order_id |-> order_id]

PlaceOrder(i, side, contract, answer) ==
    Call(i, "place_order", side, contract, answer.order_id)

PendingResult(stock, option_type) ==
    [symbol |-> stock.symbol, trend |-> stock.trend, status |-> "pending",
     option_type |-> option_type, contract |-> NoContract,
     buy_order_id |-> 0, sell_order_id |-> 0, error |-> ""]

Ended(result, status, error, calls) ==
    [result |-> [result EXCEPT !.status = status, !.error = error], calls |-> calls]

\* a variant that answers a Bullish trend with a put
OptionTypeOf_Swapped(trend) == IF trend = "Bullish" THEN "PE" ELSE "CE"

\* lines 2288-2291: a call for Bullish, a put for Bearish
OptionTypeOf(trend) == IF trend = "Bullish" THEN "CE" ELSE "PE"

\* line 2367: `if not buy_order_id` is the failure of the BUY order
AfterBuy(buy) == buy.order_id # 0

\* lines 2270-2395: one iteration of execute_option_trade_strategy
StrategyIteration(i, stock, ans) ==
    IF stock.trend \notin {"Bullish", "Bearish"}
    THEN Ended(PendingResult(stock, "None"), "skipped",
               "Stock is not Bullish or Bearish", <<>>)
    ELSE
    LET option_type == OptionTypeOf(stock.trend)
        r0 == PendingResult(stock, option_type)
        exp == get_nearest_expiry(ans.universe)
        c1 == <<Call(i, "get_nearest_expiry", "-", NoContract, 0)>>
    IN  IF IsNone(exp.expiry)
        THEN Ended(r0, "failed", "Could not get expiry: {error}", c1)
        ELSE
        LET itm == find_itm_option(ans.universe, stock.current_price, option_type,
                                   exp.expiry)
            c2 == Append(c1, Call(i, "find_itm_option", "-", itm.contract, 0))
        IN  IF itm.contract = NoContract
            THEN Ended(r0, "failed", "Could not find ITM option: {error}", c2)
            ELSE
            LET r1 == [r0 EXCEPT !.contract = itm.contract]
            IN  IF ~ans.has_key
                THEN Ended(r1, "failed", "No instrument key in contract", c2)
                ELSE
                LET ltp == get_ltp(ans.has_key, ans.ltp)
                    c3 == Append(c2, Call(i, "get_ltp", "-", itm.contract, 0))
                IN  IF ltp.kind \in {"none", "null"}
                    THEN Ended(r1, "failed", "Could not get option LTP: {error}", c3)
                    ELSE IF ltp.kind = "text"
                    THEN Ended(r1, "exception", "str(e)", c3)
                    ELSE
                    LET c4 == Append(c3, PlaceOrder(i, "BUY", itm.contract, ans.buy))
                    IN  IF ~AfterBuy(ans.buy)
                        THEN Ended(r1, "buy_failed", "Buy order failed: {error}", c4)
                        ELSE
                        LET r2 == [r1 EXCEPT !.buy_order_id = ans.buy.order_id]
                            c5 == Append(c4, PlaceOrder(i, "SELL", itm.contract, ans.sell))
                        IN  IF ans.sell.order_id = 0
                            THEN Ended(r2, "sell_failed", "Sell order failed: {error}", c5)
                            ELSE Ended([r2 EXCEPT !.sell_order_id = ans.sell.order_id],
                                       "success", "", c5)

\* lines 3041-3127: one iteration of execute_trades_with_progress, whose
\* tests are all `if error:`
ProgressIteration(i, stock, ans) ==
    LET option_type == IF stock.trend = "Bullish" THEN "CE" ELSE "PE"
        r0 == PendingResult(stock, option_type)
        exp == get_nearest_expiry(ans.universe)
        c1 == <<Call(i, "get_nearest_expiry", "-", NoContract, 0)>>
    IN  IF exp.error # NoError
        THEN Ended(r0, "failed", "Expiry error: {error}", c1)
        ELSE
        LET itm == find_itm_option(ans.universe, stock.current_price, option_type,
                                   exp.expiry)
            c2 == Append(c1, Call(i, "find_itm_option", "-", itm.contract, 0))
        IN  IF itm.error # NoError
            THEN Ended(r0, "failed", "ITM option error: {error}", c2)
            ELSE
            LET r1 == [r0 EXCEPT !.contract = itm.contract]
                ltp == get_ltp(ans.has_key, ans.ltp)
                c3 == Append(c2, Call(i, "get_ltp", "-", itm.contract, 0))
            IN  IF ltp.error # ""
                THEN Ended(r1, "failed", "LTP error: {error}", c3)
                ELSE IF ltp.kind \in {"null", "text"}
                THEN Ended(r1, "exception", "str(e)", c3)
                ELSE
                LET c4 == Append(c3, PlaceOrder(i, "BUY", itm.contract, ans.buy))
                IN  IF ans.buy.error # ""
                    THEN Ended(r1, "buy_failed", "Buy order error: {error}", c4)
                    ELSE
                    LET r2 == [r1 EXCEPT !.buy_order_id = ans.buy.order_id]
                        c5 == Append(c4, PlaceOrder(i, "SELL", itm.contract, ans.sell))
                    IN  IF ans.sell.error # ""
                        THEN Ended(r2, "sell_failed", "Sell order error: {error}", c5)
                        ELSE Ended([r2 EXCEPT !.sell_order_id = ans.sell.order_id],
                                   "success", "", c5)

TradeStocks ==
    [TradeStockIds -> [symbol : {"S"}, trend : Trends, current_price : {1000}]]

TradeInit ==
    /\ trade_fn \in {"execute_option_trade_strategy", "execute_trades_with_progress"}
    /\ \E stocks \in TradeStocks :
           trade_stocks = [i \in TradeStockIds |-> [stocks[i] EXCEPT !.symbol = i]]
    /\ trade_i = 0
    /\ trade_log = <<>>
    /\ trade_results = <<>>
    /\ ItmIdle
    /\ FetchIdle
    /\ ClassIdle
    /\ ScreenIdle
    /\ MacdIdle
    /\ TokenIdle
    /\ BgIdle
    /\ ApiIdle

OtherThanTrade ==
    <<itmVars, fetchVars, classVars, screenVars, macdVars, tokenVars, bgVars, apiVars>>

StrategyStep ==
    /\ trade_fn = "execute_option_trade_strategy"
    /\ trade_i < Len(trade_stocks)
    /\ \E ans \in BrokerAnswers :
           LET it == StrategyIteration(trade_i + 1, trade_stocks[trade_i + 1], ans)
           IN  /\ trade_log' = trade_log \o it.calls
               /\ trade_results' = Append(trade_results, it.result)
    /\ trade_i' = trade_i + 1
    /\ UNCHANGED <<trade_fn, trade_stocks, OtherThanTrade>>

ProgressStep ==
    /\ trade_fn = "execute_trades_with_progress"
    /\ trade_i < Len(trade_stocks)
    /\ \E ans \in BrokerAnswers :
           LET it == ProgressIteration(trade_i + 1, trade_stocks[trade_i + 1], ans)
           IN  /\ trade_log' = trade_log \o it.calls
               /\ trade_results' = Append(trade_results, it.result)
    /\ trade_i' = trade_i + 1
    /\ UNCHANGED <<trade_fn, trade_stocks, OtherThanTrade>>

TradeNext == StrategyStep \/ ProgressStep

SpecTrade == TradeInit /\ [][TradeNext]_vars

(***************************************************************************)
(* Properties of the ITM contract selector                                 *)
(***************************************************************************)
\* the contracts find_itm_option chooses among: the catalog's answer for the
\* expiry argument, restricted to the requested type
Candidates ==
    LET listed == IF IsNone(itm_args.expiry_date) THEN itm_universe.contracts
                  ELSE SelectSeq(itm_universe.contracts,
                                 LAMBDA c : c.expiry = Val(itm_args.expiry_date))
    IN  SelectSeq(listed, LAMBDA c : c.instrument_type = itm_args.option_type)

InTheMoney(c) ==
    IF itm_args.option_type = "CE" THEN c.strike_price < itm_args.current_price
    ELSE c.strike_price > itm_args.current_price

Distance(c) ==
    IF c.strike_price < itm_args.current_price
    THEN itm_args.current_price - c.strike_price
    ELSE c.strike_price - itm_args.current_price

Returned == itm_args # NotCalled /\ itm_ret.contract # NoContract

\* C8: find_itm_option never returns a contract that is not in the money for
\* the requested direction; the contract it returns is a candidate of the
\* requested type at the minimum distance from the current price, the first
\* such candidate in catalog order when several tie; for price 1000 and call
\* strikes [950, 980, 1010] it returns strike 980.
C8_NearestItm ==
    Returned =>
        LET c == itm_ret.contract
            cands == Candidates
        IN  /\ c.instrument_type = itm_args.option_type
            /\ InTheMoney(c)
            /\ \E i \in DOMAIN cands :
                /\ cands[i] = c
                /\ \A j \in DOMAIN cands :
                    InTheMoney(cands[j]) =>
                        /\ Distance(c) <= Distance(cands[j])
                        /\ (Distance(cands[j]) = Distance(c) /\ cands[j] # c) => i < j
            /\ (/\ itm_args.current_price = 1000
                /\ itm_args.option_type = "CE"
                /\ [i \in DOMAIN cands |-> cands[i].strike_price] = <<950, 980, 1010>>)
               => c.strike_price = 980

\* the scenario of the claim: price 1000, call strikes [950, 980, 1010]
C8_Witness ==
    /\ Returned
    /\ itm_args.current_price = 1000
    /\ itm_args.option_type = "CE"
    /\ [i \in DOMAIN Candidates |-> Candidates[i].strike_price] = <<950, 980, 1010>>
    /\ itm_ret.contract.strike_price = 980

\* C9: called without an expiry, find_itm_option returns a contract of the
\* nearest expiry among all contracts of the symbol.
C9_NearestExpiryWhenOmitted ==
    (Returned /\ IsNone(itm_args.expiry_date)) =>
        itm_ret.contract.expiry
            = Min({c.expiry : c \in Range(itm_universe.contracts)})

\* C10: the three failures are reported as distinct (no contract, reason)
\* values: an empty universe, no contract of the requested type, no contract
\* in the money; a reason is given exactly when no contract is returned.
C10_DistinctFailures ==
    itm_args # NotCalled =>
        LET listed == IF IsNone(itm_args.expiry_date) THEN itm_universe.contracts
                      ELSE SelectSeq(itm_universe.contracts,
                                     LAMBDA c : c.expiry = Val(itm_args.expiry_date))
            anyItm == \E i \in DOMAIN Candidates : InTheMoney(Candidates[i])
        IN  /\ (itm_ret.contract = NoContract) # (itm_ret.error = NoError)
            /\ (itm_universe.status = "ok" /\ listed = <<>>)
                => /\ itm_ret.contract = NoContract
                   /\ itm_ret.error = Error("No contracts found")
            /\ (itm_universe.status = "ok" /\ listed # <<>> /\ Candidates = <<>>)
                => /\ itm_ret.contract = NoContract
                   /\ itm_ret.error.text = "No {option_type} contracts found"
            /\ (itm_universe.status = "ok" /\ Candidates # <<>> /\ ~anyItm)
                => /\ itm_ret.contract = NoContract
                   /\ itm_ret.error.text
                        = "No ITM {option_type} contracts found for price {current_price}"
            /\ (itm_universe.status = "ok" /\ anyItm) => itm_ret.contract # NoContract

\* contracts of the requested type exist and none is in the money
C10_Witness ==
    /\ itm_args # NotCalled
    /\ itm_universe.status = "ok"
    /\ Candidates # <<>>
    /\ \A i \in DOMAIN Candidates : ~InTheMoney(Candidates[i])
    /\ itm_ret.contract = NoContract
    /\ itm_ret.error.text
        = "No ITM {option_type} contracts found for price {current_price}"

(***************************************************************************)
(* Properties of fetch_single_stock_data                                   *)
(***************************************************************************)
Emitted == f_ret # NotCalled /\ f_ret # NoResult

\* the call had a snapshot to overlay
SnapshotAvailable ==
    f_in.use_live_data /\ ~f_in.use_mock /\ f_in.intraday # <<>>

\* the series the call acquired, before any overlay
PersistedSeries == AcquireSeries(f_in).data

HasToday(series) == \E i \in DOMAIN series : series[i].date = StrDate(0)

\* C3: after the overlay of a snapshot the merged series has one entry per
\* calendar date: as many entries as before when the persisted series already
\* held today's date, one more when it did not.
C3_OneEntryPerDate ==
    (Emitted /\ SnapshotAvailable) =>
        LET merged == f_ret.raw_data
        IN  /\ \A i, j \in DOMAIN merged : i # j => merged[i].date # merged[j].date
            /\ Len(merged) = IF HasToday(PersistedSeries)
                             THEN Len(PersistedSeries)
                             ELSE Len(PersistedSeries) + 1

\* the two latest frames of the persisted series carry the indicator values
\* the function requires
IndicatorsDefined(series) ==
    /\ Len(series) >= MinCandles
    /\ ~IsNone(Frame(Reverse(series), 0, f_in.macd).senkou_span_b)
    /\ ~IsNone(Frame(Reverse(series), 0, f_in.macd).macd_hist)
    /\ ~IsNone(Frame(Reverse(series), 1, f_in.macd).macd_hist)

\* C4: without a snapshot the persisted series is used unmodified and a
\* symbol with at least 60 candles and defined indicators still gets a result.
C4_ResultWithoutSnapshot ==
    (/\ f_ret # NotCalled
     /\ ~SnapshotAvailable
     /\ "symbol" \in DOMAIN f_in.stock
     /\ IndicatorsDefined(PersistedSeries))
        => /\ f_ret # NoResult
           /\ f_ret.raw_data = PersistedSeries

\* the five clauses of the claim, read on the frames latest = frames[0],
\* previous = frames[1] and ref = frames[26] of an emitted result
FiveClauses(frames, up) ==
    LET latest == frames[0]
        previous == frames[1]
        ref == frames[26]
        Above(x, y) == IF up THEN x > y ELSE x < y
    IN  /\ ~IsNone(latest.senkou_span_b)
        /\ Above(latest.close, Val(latest.senkou_span_b))
        /\ ~IsNone(latest.macd_hist) /\ ~IsNone(latest.macd_signal)
        /\ Above(Val(latest.macd_hist), 0) /\ Above(Val(latest.macd_signal), 0)
        /\ ~IsNone(previous.macd_hist)
        /\ Above(Val(latest.macd_hist), Val(previous.macd_hist))
        /\ ~IsNone(ref.senkou_span_a) /\ ~IsNone(ref.senkou_span_b)
        /\ Above(Val(ref.senkou_span_a), Val(ref.senkou_span_b))
        /\ Above(latest.close, Val(ref.senkou_span_a))
        /\ Above(latest.close, Val(ref.senkou_span_b))
        /\ Above(latest.chikou_span, ref.close)
        /\ Above(latest.close, latest.open)

StrengthOf(num) ==
    \* f_ret.intraday_strength_pct is num / close * 100 rounded to 4 places
    LET d == f_ret.intraday_strength_pct * f_ret.current_price - num * 1000000
    IN  /\ d <= f_ret.current_price \div 2
        /\ d >= 0 - (f_ret.current_price \div 2)

StrengthByBranch ==
    IF f_ret.current_price > EarliestOpen(f_in.intraday)
    THEN StrengthOf(f_ret.high_price - f_ret.current_price)
    ELSE StrengthOf(f_ret.current_price - f_ret.low_price)

\* C7 as stated: intraday_strength_pct lies in [0, 100) and is taken from the
\* branch that close > open selects.
C7_StrengthBelow100 ==
    Emitted =>
        /\ f_ret.intraday_strength_pct >= 0
        /\ f_ret.intraday_strength_pct < 100 * 10000
        /\ StrengthByBranch

\* C7 as amended: intraday_strength_pct is at least 0 and is taken from the
\* branch that close > open selects; it is at most 100 when close <= open and
\* reaches 100 or more only when close > open and high >= 2 * close.
C7_StrengthNonNegative ==
    Emitted =>
        /\ f_ret.intraday_strength_pct >= 0
        /\ StrengthByBranch
        /\ f_ret.current_price <= EarliestOpen(f_in.intraday)
            => f_ret.intraday_strength_pct <= 100 * 10000
        /\ f_ret.intraday_strength_pct >= 100 * 10000
            => /\ f_ret.current_price > EarliestOpen(f_in.intraday)
               /\ f_ret.high_price >= 2 * f_ret.current_price

\* an up candle whose high is more than twice its close
C7_Witness ==
    /\ Emitted
    /\ f_ret.current_price > EarliestOpen(f_in.intraday)
    /\ f_ret.high_price >= 2 * f_ret.current_price
    /\ f_ret.intraday_strength_pct >= 100 * 10000

\* the candle the call synthesized for today (its volume is the sentinel 22)
SynthesizedRows == {r \in Range(f_ret.raw_data) : r.volume = 22}

\* the persisted candles of today, and the intraday candles of the snapshot
PersistedToday == {r \in Range(PersistedSeries) : r.date = StrDate(0)}
SnapshotCandles == Range(f_in.intraday)

\* C18: the candle synthesized for today has the open of the session's first
\* intraday candle, the close of the latest one, the larger of the persisted
\* high of today and the intraday high, and the smaller of the persisted low
\* of today and the intraday low.
C18_SynthesizedCandle ==
    (Emitted /\ SnapshotAvailable) =>
        \E r \in SynthesizedRows :
            /\ r.date = Today
            /\ \E c \in SnapshotCandles :
                /\ \A d \in SnapshotCandles : c.datetime <= d.datetime
                /\ r.open = c.open
            /\ \E c \in SnapshotCandles :
                /\ \A d \in SnapshotCandles : c.datetime >= d.datetime
                /\ r.close = c.close
            /\ r.high = Max({c.high : c \in SnapshotCandles}
                            \cup {p.high : p \in PersistedToday})
            /\ r.low = Min({c.low : c \in SnapshotCandles}
                           \cup {p.low : p \in PersistedToday})

\* C19: a call whose acquired series has fewer than the 60 required candles
\* returns None: no verdict for the symbol, and nothing raised.
C19_InsufficientData ==
    (f_ret # NotCalled /\ Len(PersistedSeries) < MinCandles) => f_ret = NoResult

\* a call on a cached series of 40 candles has returned None
C19_Witness ==
    /\ f_ret = NoResult
    /\ "symbol" \in DOMAIN f_in.stock
    /\ AcquireSeries(f_in).source = "cache"
    /\ Len(PersistedSeries) = 40

\* a call that got past stock["symbol"] has returned
SeriesAcquired == f_ret # NotCalled /\ "symbol" \in DOMAIN f_in.stock

\* the position of the data function fn among the calls made, 0 when absent
CallIndex(fn) ==
    IF \E i \in DOMAIN f_calls : f_calls[i] = fn
    THEN CHOOSE i \in DOMAIN f_calls : f_calls[i] = fn
    ELSE 0

CacheMiss == f_in.cache.n = 0
RemoteFailed == f_in.remote.n = 0

\* cache first; the remote fetch exactly on a cache miss; a successful remote
\* fetch saved to the table before the indicators are computed; a synthetic
\* series exactly when the remote fetch gave nothing
OrderedAcquisition ==
    /\ CallIndex("get_historical_data") = 1
    /\ CallIndex("api.get_historical_data") # 0 <=> CacheMiss
    /\ CallIndex("api.get_historical_data") # 0 =>
           CallIndex("api.get_historical_data") = 2
    /\ (CacheMiss /\ ~RemoteFailed) =>
           /\ CallIndex("save_historical_data") = 3
           /\ CallIndex("calculate_indicators") \in {0} \cup (4..Len(f_calls))
           /\ db_writable => Range(SeriesOf(f_in.remote)) \subseteq daily_prices
    /\ CallIndex("save_historical_data") # 0 => (CacheMiss /\ ~RemoteFailed)
    /\ CallIndex("generate_mock_historical_data") # 0 <=>
           (CacheMiss /\ RemoteFailed)

\* C20 as stated: every call acquires its series in that order.
C20_AcquisitionOrder == SeriesAcquired => OrderedAcquisition

\* C20 as amended: a call with use_mock false acquires its series in that
\* order; a call with use_mock true generates the synthetic series at once,
\* without reading the cache, asking the remote or writing the table.
C20_AcquisitionOrderUnlessMock ==
    SeriesAcquired =>
        IF f_in.use_mock
        THEN /\ CallIndex("generate_mock_historical_data") = 1
             /\ CallIndex("get_historical_data") = 0
             /\ CallIndex("api.get_historical_data") = 0
             /\ CallIndex("save_historical_data") = 0
             /\ daily_prices = Range(SeriesOf(f_in.cache))
        ELSE OrderedAcquisition

\* a call that missed the cache, got candles from the remote, saved them and
\* then computed the indicators
C20_Witness ==
    /\ SeriesAcquired
    /\ ~f_in.use_mock
    /\ f_calls = <<"get_historical_data", "api.get_historical_data",
                   "save_historical_data", "calculate_indicators">>
    /\ daily_prices = Range(SeriesOf(f_in.remote))
    /\ daily_prices # {}

\* C21: every emitted result was computed from a complete set of indicator
\* values: the latest senkou_span_b, macd_hist and macd_signal, the previous
\* macd_hist, and the senkou_span_a, senkou_span_b and close of the frame 26
\* periods back are all defined.
C21_CompleteFrames ==
    Emitted =>
        LET latest == f_ret.indicators[0]
            previous == f_ret.indicators[1]
            ref == f_ret.indicators[26]
        IN  /\ ~IsNone(latest.senkou_span_b)
            /\ ~IsNone(latest.macd_hist)
            /\ ~IsNone(latest.macd_signal)
            /\ ~IsNone(previous.macd_hist)
            /\ ~IsNone(ref.senkou_span_a)
            /\ ~IsNone(ref.senkou_span_b)
            /\ ref.close \in Int

\* the environments in which a data call fails for want of a credential, and
\* those in which it fails in transit (timeout, rate limit, transport)
CredentialFailure(env) == env.token = 0
TransientFailure(env) ==
    /\ env.token # 0
    /\ env.instrument_key
    /\ \/ env.response.kind \in {"timeout", "transport"}
       \/ env.response.kind = "status" /\ env.response.status = HTTP_RATE_LIMITED

\* C22: what get_historical_data and get_current_data return on a credential
\* failure is an outcome that no transient failure produces.
C22_CredentialFailureDistinct ==
    /\ (hist_ret # NotCalled /\ CredentialFailure(api_env)) =>
           \A e \in ApiEnvs :
               TransientFailure(e) => UpstoxAPI_get_historical_data(e) # hist_ret
    /\ (cur_ret # NotCalled /\ CredentialFailure(api_env)) =>
           \A e \in ApiEnvs :
               TransientFailure(e) => UpstoxAPI_get_current_data(e) # cur_ret

\* C23: calculate_ema returns as many entries as it got prices: all undefined
\* when there are fewer prices than the period; otherwise period-1 undefined
\* entries, then the plain average of the first period prices, then
\* price[i]*k + ema[i-1]*(1-k) with k = 2/(period+1); a second call on the
\* same arguments returns the same list.
C23_EmaDefinition ==
    ema_ret # NotCalled =>
        LET prices == ema_in.prices
            period == ema_in.period
            ema == ema_ret.ema
            k == Q(2, period + 1)
        IN  /\ Len(ema) = Len(prices)
            /\ Len(prices) < period => \A i \in DOMAIN ema : ema[i] = None
            /\ Len(prices) >= period =>
                \A i \in DOMAIN ema :
                    ema[i] =
                        IF i < period THEN None
                        ELSE IF i = period
                        THEN Some(QMul(QSum(prices, period), Q(1, period)))
                        ELSE Some(QAdd(QMul(prices[i], k),
                                       QMul(Val(ema[i - 1]), QSub(QInt(1), k))))
            /\ ema_again # NotCalled => ema_again = ema_ret

\* both calls were made on more prices than the period, so that the list has
\* undefined entries, the average and smoothed entries
C23_Witness ==
    /\ ema_again # NotCalled
    /\ ema_in.period = 3
    /\ Len(ema_in.prices) = 5
    /\ ema_ret.ema[2] = None
    /\ ema_ret.ema[3] # None
    /\ ema_ret.ema[5] # ema_ret.ema[4]

\* C24: for fewer prices than slow + signal, calculate_macd returns three
\* lists (macd, signal line, histogram), each as long as the input and
\* undefined in every entry.
C24_ShortInputAllUndefined ==
    (macd_ret # NotCalled /\ Len(macd_in.prices) < macd_in.slow + macd_in.signal) =>
        LET undefined == [i \in 1..Len(macd_in.prices) |-> None]
        IN  /\ macd_ret.macd = undefined
            /\ macd_ret.signal_line = undefined
            /\ macd_ret.histogram = undefined

\* the BUY and SELL orders placed so far
Orders(side) ==
    {k \in DOMAIN trade_log :
        trade_log[k].call = "place_order" /\ trade_log[k].side = side}

\* C25: in both trade functions a SELL order is placed only after a BUY order
\* for the same contract of the same stock returned an order id; when the BUY
\* order returned none, no SELL order is placed for the stock and its status
\* is not 'success'.
C25_SellOnlyAfterBuy ==
    /\ \A k \in Orders("SELL") :
           \E j \in Orders("BUY") :
               /\ j < k
               /\ trade_log[j].stock = trade_log[k].stock
               /\ trade_log[j].contract = trade_log[k].contract
               /\ trade_log[j].order_id # 0
    /\ \A j \in Orders("BUY") :
           trade_log[j].order_id = 0 =>
               /\ \A k \in Orders("SELL") : trade_log[k].stock # trade_log[j].stock
               /\ trade_results[trade_log[j].stock].status # "success"

\* the broker calls made for stock i
CallsFor(i) == {k \in DOMAIN trade_log : trade_log[k].stock = i}

\* C26: execute_option_trade_strategy appends exactly one result entry per
\* stock it has handled, in input order, whatever step fails; a stock that is
\* neither Bullish nor Bearish is 'skipped' without any broker call; a Bullish
\* stock is traded with a CE contract only and a Bearish one with a PE
\* contract only.
C26_OneResultPerStock ==
    trade_fn = "execute_option_trade_strategy" =>
        /\ Len(trade_results) = trade_i
        /\ \A i \in DOMAIN trade_results :
            /\ trade_results[i].symbol = trade_stocks[i].symbol
            /\ trade_results[i].status # "pending"
            /\ trade_stocks[i].trend \notin {"Bullish", "Bearish"} =>
                   /\ trade_results[i].status = "skipped"
                   /\ CallsFor(i) = {}
        /\ \A k \in Orders("BUY") \cup Orders("SELL") :
            /\ trade_stocks[trade_log[k].stock].trend = "Bullish" =>
                   trade_log[k].contract.instrument_type = "CE"
            /\ trade_stocks[trade_log[k].stock].trend = "Bearish" =>
                   trade_log[k].contract.instrument_type = "PE"

\* the run is over: one stock was traded and the other ended in an exception
C26_Witness ==
    /\ trade_fn = "execute_option_trade_strategy"
    /\ trade_i = Len(trade_stocks)
    /\ Len(trade_results) = Len(trade_stocks)
    /\ \E i \in DOMAIN trade_results : trade_results[i].status = "exception"
    /\ \E i \in DOMAIN trade_results :
           /\ trade_results[i].status = "success"
           /\ trade_stocks[i].trend = "Bearish"

\* the call has returned and save_historical_data was one of its calls
Saved == f_ret # NotCalled /\ CallIndex("save_historical_data") # 0

\* the table as it was before the call
TableBefore == Range(get_historical_data(f_in.cache))

\* C28: save_historical_data is called only with the candles of a successful
\* remote fetch, and a call in mock mode or with a failing remote fetch
\* leaves the table as it was: no generated candle is ever stored.
C28_GeneratedNeverCached ==
    f_ret # NotCalled =>
        /\ Saved =>
               /\ ~f_in.use_mock
               /\ api_get_historical_data(f_in.remote) # <<>>
               /\ daily_prices \subseteq
                      TableBefore \cup Range(api_get_historical_data(f_in.remote))
        /\ (f_in.use_mock \/ api_get_historical_data(f_in.remote) = <<>>) =>
               daily_prices = TableBefore

\* a call outside mock mode that fell back to the generated series after a
\* failed remote fetch, on a writable database: the table is as it was
C28_Witness ==
    /\ f_ret # NotCalled
    /\ db_writable
    /\ CallIndex("generate_mock_historical_data") # 0
    /\ ~f_in.use_mock
    /\ CallIndex("api.get_historical_data") # 0
    /\ daily_prices = TableBefore
    /\ Range(generate_mock_historical_data(f_in.mock)) \cap daily_prices = {}

\* the calls that ask the endpoint for a refresh
RefreshOps == {"get_token", "get_token_with_auto_refresh", "refresh_token_method"}

\* in this step the refresh request of caller t comes to its end
RefreshEnds(t) ==
    /\ caller[t].op \in RefreshOps
    /\ caller[t].pc \in {"posting", "saving"}
    /\ caller'[t].pc = "done"

\* C29: a refresh that yields no new access token leaves the stored record
\* as it was, and when a refresh has ended the stored record, if there is
\* one, holds a non-empty access token.
C29_FailedRefreshKeepsRecord ==
    [][\A t \in Callers :
          RefreshEnds(t) =>
              /\ ~Truthy(caller'[t].ret.token) => api_tokens' = api_tokens
              /\ api_tokens' # <<>> => Truthy(fetchone(api_tokens').access_token)]_vars

\* the merged series of an emitted result has from 60 to 77 candles
ShortOfReference ==
    Emitted /\ Len(f_ret.raw_data) >= MinCandles
            /\ Len(f_ret.raw_data) < SenkouBPeriod + KijunPeriod

\* C27: for a merged series of 60 to 77 candles the senkou_span_b of the
\* frame 26 periods back is undefined and the verdict of any emitted result
\* is Neutral.
C27_ShortSeriesNeutral ==
    ShortOfReference =>
        /\ IsNone(f_ret.indicators[26].senkou_span_b)
        /\ f_ret.trend = "Neutral/Mixed"

\* a result for a merged series of 77 candles whose other clauses
\* (cloud, MACD, candle) all speak for one direction
C27_Witness ==
    /\ ShortOfReference
    /\ Len(f_ret.raw_data) = 77
    /\ f_ret.trend = "Neutral/Mixed"
    /\ Trend_WithoutReference(
           Clauses(f_ret.current_price, f_ret.indicators[0], f_ret.indicators[1],
                   f_ret.indicators[26], TRUE)) # "Neutral/Mixed"

(***************************************************************************)
(* Properties of the trend classifier                                      *)
(***************************************************************************)
\* the truth values of the five Bullish clauses and of the five Bearish ones
BullishClauses(e) ==
    LET c == Clauses(e.current_price, e.latest, e.previous, e.ref, TRUE)
    IN  <<c.cloud_bullish, c.macd_positive, c.macd_hist_increasing,
          c.ichimoku_bullish_pass, c.candle_up>>

BearishClauses(e) ==
    LET c == Clauses(e.current_price, e.latest, e.previous, e.ref, TRUE)
    IN  <<c.cloud_bearish, c.macd_negative, c.macd_hist_decreasing,
          c.ichimoku_bearish_pass, c.candle_down>>

AllHold(clauses) == \A k \in DOMAIN clauses : clauses[k]

\* exactly one clause went from true to false and the others kept their value
OneFlipped(before, after) ==
    \E k \in DOMAIN before :
        /\ before[k] /\ ~after[k]
        /\ \A j \in DOMAIN before : j # k => after[j] = before[j]

\* C6: from a Bullish (Bearish) input, turning one required clause from true
\* to false while the other four keep their value gives Neutral, never the
\* opposite verdict; no input satisfies both rule sets, and the verdict is
\* Bullish or Bearish only if its rule set holds.
C6_Monotonic ==
    /\ [](~(AllHold(BullishClauses(cl_in)) /\ AllHold(BearishClauses(cl_in))))
    /\ [](cl_trend = "Bullish" => AllHold(BullishClauses(cl_in)))
    /\ [](cl_trend = "Bearish" => AllHold(BearishClauses(cl_in)))
    /\ [][/\ (cl_trend = "Bullish"
                /\ OneFlipped(BullishClauses(cl_in), BullishClauses(cl_in')))
             => cl_trend' = "Neutral/Mixed"
          /\ (cl_trend = "Bearish"
                /\ OneFlipped(BearishClauses(cl_in), BearishClauses(cl_in')))
             => cl_trend' = "Neutral/Mixed"]_vars

\* an input one clause away from Bullish: four clauses hold, the candle
\* clause does not, and its Bearish mirror does
C6_Witness ==
    /\ cl_in # NotCalled
    /\ BullishClauses(cl_in) = <<TRUE, TRUE, TRUE, TRUE, FALSE>>
    /\ BearishClauses(cl_in)[5]
    /\ cl_trend = "Neutral/Mixed"

(***************************************************************************)
(* Properties of screen_stocks                                             *)
(***************************************************************************)
\* the stocks whose task meets no failure
Unaffected == {i \in StockIds : task[i] = "result"}

\* the entries of `results` that belong to stock i
ResultsOf(i) == {k \in DOMAIN results : results[k].symbol = i}

C2_TimedOutTaskDropped ==
    /\ pc = "returned" =>
         \A i \in StockIds : future[i].overdue => ResultsOf(i) = {}
    /\ (~ENABLED Next) => pc = "returned"

(***************************************************************************)
(* Properties of calculate_macd                                            *)
(***************************************************************************)
\* the indices at which the MACD line is defined, in ascending order
RECURSIVE DefinedUpTo(_, _)
DefinedUpTo(line, k) ==
    IF k = 0 THEN <<>>
    ELSE IF line[k] # None THEN Append(DefinedUpTo(line, k - 1), k)
         ELSE DefinedUpTo(line, k - 1)

\* the signal-period average of the defined MACD values, each put back at
\* the index of the value it belongs to
AlignedSignal(macd, signal) ==
    LET idx == DefinedUpTo(macd, Len(macd))
        ema == calculate_ema([j \in DOMAIN idx |-> Val(macd[idx[j]])], signal)
    IN  [i \in DOMAIN macd |->
            IF macd[i] = None THEN None
            ELSE ema[CHOOSE j \in DOMAIN idx : idx[j] = i]]

\* C11: for a series of at least slow+signal prices the histogram is
\* macd - signal_line at every index where both are defined, 0 included, and
\* undefined elsewhere; the signal line is the average of the defined MACD
\* values at the index each belongs to.
C11_HistogramPointwise ==
    (macd_ret # NotCalled /\ macd_ret # NoMacd) =>
        /\ \A i \in DOMAIN macd_ret.macd :
            macd_ret.histogram[i] =
                IF macd_ret.macd[i] # None /\ macd_ret.signal_line[i] # None
                THEN Some(QSub(Val(macd_ret.macd[i]), Val(macd_ret.signal_line[i])))
                ELSE None
        /\ macd_ret.signal_line = AlignedSignal(macd_ret.macd, macd_in.signal)

(***************************************************************************)
(* Properties of TokenManager                                              *)
(***************************************************************************)
TokenReaders == {"get_token", "get_token_with_auto_refresh"}

\* the lead window of each of the two calls, in seconds
LeadOf(op) == IF op = "get_token" THEN HourSeconds ELSE LeadMinutes * 60

\* the stored credential expires in less than `lead` seconds from now
BelowLead(row, lead) ==
    /\ row.found
    /\ row.expires_at # None
    /\ strptime_seconds(Val(row.expires_at)) - now < timedelta(lead)

\* caller t begins one of the two calls in this step and reads the table
BeginsRead(t) ==
    /\ caller[t].pc \in {"idle", "done"}
    /\ caller'[t] # caller[t]
    /\ caller'[t].op \in TokenReaders
    /\ caller'[t].read

\* a credential below the lead window: the refresh is asked for with the
\* stored refresh credential, or, without one, the call returns no token
RefreshTriggered(t) ==
    (BeginsRead(t) /\ BelowLead(fetchone(api_tokens), LeadOf(caller'[t].op))) =>
        IF Truthy(fetchone(api_tokens).refresh_token)
        THEN /\ caller'[t].pc = "posting"
             /\ caller'[t].sent = fetchone(api_tokens).refresh_token
        ELSE /\ caller'[t].pc = "done"
             /\ caller'[t].ret.returned
             /\ caller'[t].ret.token = None

\* the endpoint rejects, or the request fails: no token, the table untouched
RefreshRejected(t) ==
    (caller[t].op \in TokenReaders /\ caller[t].pc = "posting"
        /\ caller'[t].pc = "done") =>
        /\ caller'[t].ret.returned
        /\ caller'[t].ret.token = None
        /\ api_tokens' = api_tokens

\* a 200 whose body names no access token: no token for the caller
RefreshEmpty(t) ==
    (caller[t].op \in TokenReaders /\ caller[t].pc = "saving"
        /\ ~Truthy(caller[t].resp.access_token) /\ caller'[t].pc = "done") =>
        /\ caller'[t].ret.returned
        /\ caller'[t].ret.token = None

\* the endpoint issues a token: the caller gets the token of the response,
\* and the row that is written to the table holds that token and an expiry
\* ahead
RefreshSucceeded(t) ==
    (caller[t].op \in TokenReaders /\ caller[t].pc = "saving"
        /\ Truthy(caller[t].resp.access_token) /\ caller'[t].pc = "done") =>
        /\ caller'[t].ret.returned
        /\ caller'[t].ret.token = caller[t].resp.access_token
        /\ Truthy(caller'[t].ret.token)
        /\ \A i \in DOMAIN api_tokens : api_tokens[i].access_token # caller'[t].ret.token
        /\ caller'[t].ret.saved =>
            /\ Len(api_tokens') = 1
            /\ api_tokens'[1].access_token = caller'[t].ret.token
            /\ api_tokens'[1].expires_at # None
            /\ strptime_seconds(Val(api_tokens'[1].expires_at)) > now

RefreshInFlight ==
    {t \in Callers : caller[t].pc = "posting" /\ caller[t].op \in TokenReaders}

\* C13: when several callers call get_token while the credential is near
\* expiry the refresh is serialized, at most one refresh request being in
\* flight at a time, and the table never shows a reader a half-written
\* credential.
C13_SerializedRefresh ==
    /\ Cardinality(RefreshInFlight) <= 1
    /\ \A i \in DOMAIN api_tokens : api_tokens[i].access_token # None

\* caller t ends in this step a call that got a token and wrote the table
Acquired(t) ==
    /\ caller'[t] # caller[t]
    /\ caller'[t].pc = "done"
    /\ caller'[t].ret.saved
    /\ Truthy(caller'[t].ret.token)

\* C14: whatever save_token, refresh_token_method and get_new_token calls
\* are made, the table holds at most one record; after a call that acquired
\* and stored a credential it holds exactly one, the new one, the previous
\* record being gone.
C14_OneRecord ==
    /\ [](Len(api_tokens) <= 1)
    /\ [][\A t \in Callers :
            Acquired(t) =>
                /\ Len(api_tokens') = 1
                /\ api_tokens'[1].access_token = caller'[t].ret.token
                /\ \A i \in DOMAIN api_tokens : api_tokens'[1] # api_tokens[i]]_vars

C14_Witness ==
    \E t, u \in Callers :
        /\ t # u
        /\ caller[t].pc = "done" /\ caller[t].ret.saved /\ Truthy(caller[t].ret.token)
        /\ caller[u].pc = "done" /\ caller[u].ret.saved /\ Truthy(caller[u].ret.token)
        /\ caller[t].op = "get_new_token"
        /\ Len(api_tokens) = 1
        /\ api_tokens[1].access_token = caller[t].ret.token

\* the tasks that are executing, and those that never return
Executing == {i \in StockIds : future[i].state = "running"}
NeverReturning == {i \in StockIds : task[i] = "hangs"}

StartedWhileWorkersReturn ==
    /\ [](Cardinality(Executing) <= MAX_PARALLEL_WORKERS)
    /\ (Cardinality(NeverReturning) < MAX_PARALLEL_WORKERS) =>
            \A i \in StockIds : (i <= submitted) ~> (future[i].state # "pending")

\* C16: `completed` goes up by exactly one for each future that is
\* collected, whether it gave a result or not, and changes at no other time;
\* it never exceeds total, equals total when the pass returns, and the
\* number of collected results never exceeds it.
C16_ProgressCounter ==
    /\ [](completed = Cardinality(yielded))
    /\ [](completed <= NumStocks)
    /\ [](Len(results) <= completed)
    /\ [](pc = "returned" => completed = NumStocks)
    /\ [][IF yielded' # yielded THEN completed' = completed + 1
          ELSE completed' = completed]_vars

C16_Witness ==
    /\ pc = "returned"
    /\ completed = NumStocks
    /\ Len(results) < completed
    /\ \E i \in StockIds : task[i] = "raises"
    /\ \E i \in StockIds : task[i] = "result"

\* C17: for the same stock list and the same task outcomes
\* background_refresh_data returns the same set of results as screen_stocks
\* (each result once), and never runs more than MAX_PARALLEL_WORKERS tasks
\* at a time.
C17_SameResults ==
    /\ (pc = "returned" /\ bg_pc = "returned") =>
        /\ Range(bg_results) = Range(results)
        /\ Len(bg_results) = Len(results)
    /\ bg_pc # "idle" =>
        Cardinality({i \in StockIds : bg_future[i].state = "running"})
            <= MAX_PARALLEL_WORKERS

C17_Witness ==
    /\ pc = "returned"
    /\ bg_pc = "returned"
    /\ Len(results) >= 2
    /\ bg_results # results
    /\ \E i \in StockIds : task[i] = "raises"

\* caller t begins get_token or get_token_with_auto_refresh in this step and
\* reads a record that has no expires_at
ReadsUndated(t) ==
    /\ BeginsRead(t)
    /\ fetchone(api_tokens).found
    /\ fetchone(api_tokens).expires_at = None

\* C30: a stored record without expires_at never enters the near-expiry
\* path: get_token and get_token_with_auto_refresh return its access token
\* as valid, whatever the clock says, and ask for no refresh.
C30_UndatedRecordIsValid ==
    [][\A t \in Callers :
          ReadsUndated(t) =>
              /\ caller'[t].pc = "done"
              /\ ~caller'[t].due
              /\ caller'[t].ret.token = fetchone(api_tokens).access_token
              /\ caller'[t].ret.endpoint = "none"
              /\ caller'[t].op = "get_token_with_auto_refresh" =>
                     caller'[t].ret.status = "valid"
              /\ api_tokens' = api_tokens]_vars

\* after time has passed, a call has returned the token of a record that has
\* a refresh token and no expires_at
C30_Witness ==
    \E t \in Callers :
        /\ now > StartClock
        /\ caller[t].op = "get_token_with_auto_refresh"
        /\ caller[t].pc = "done"
        /\ caller[t].read
        /\ caller[t].ret.status = "valid"
        /\ api_tokens # <<>>
        /\ api_tokens[1].expires_at = None
        /\ Truthy(api_tokens[1].refresh_token)
        /\ Truthy(caller[t].ret.token)
        /\ caller[t].ret.token = api_tokens[1].access_token

=============================================================================
